---- MODULE Spec2Model ----
(***************************************************************************)
(* State-machine model of ScreenshotOverlay (src/snap_tool.py): the        *)
(* selection / editing / drawing / text-entry handlers of the capture      *)
(* overlay, its shape list and the hit-test and erase routines.            *)
(*                                                                         *)
(* Conventions                                                             *)
(*   - a QPoint is a pair <<x, y>>; Python's None is the empty tuple <<>>  *)
(*   - a QRect is <<x1, y1, x2, y2>> (Qt's inclusive corners), so that     *)
(*     width = x2 - x1 + 1                                                 *)
(*   - a shape (shape_type, color, size, data) is a record; data is a      *)
(*     sequence of points, or <<anchor, content>> for text, content being  *)
(*     a sequence of characters                                            *)
(*   - list indexes are 1-based; index i here is Python index i-1 and      *)
(*     NoIndex (0) is Python's None                                        *)
(*   - distances are compared through their squares in exact arithmetic    *)
(***************************************************************************)
EXTENDS Integers, Sequences, FiniteSets, TLC

VARIABLES
    sc,                     \* the input profile of this run (which points, tools, keys the user uses)
    visible,                \* QWidget.isVisible(): the session is live
    start_pos, end_pos,
    is_selecting, edit_mode,
    drawing_paths, current_path, is_drawing,
    current_tool,
    is_moving, move_start_pos,
    current_color, current_width, current_font_size,
    draw_start_pos,
    dragging_shape_index, hovered_shape_index, drag_start_pos,
    param_panel_open,
    hovered_window_rect, hovered_window_id,
    selected_window_id, selected_window_pixmap,
    text_editing, text_editing_pos, text_editing_content,
    cursor_visible, cursor_timer,
    background_pixmap,
    dpr,                    \* the scale, logical to physical pixels: the fraction <<n, d>>
    window_offset,
    geometry,               \* QWidget.geometry(), in logical pixels
    sync_pending,           \* a QTimer.singleShot(0, self._post_show_sync) is due
    toolbar_drawn,          \* hasattr(self, '..._btn_rect'): _draw_toolbar has run
    saved,                  \* what _save_screenshot exported, in order
    pressed,                \* the left button is physically down
    gesture,                \* pointer positions delivered since the button went down
    overlay,                \* SnapTool.overlay: 0 for None, else the number of the ScreenshotOverlay made
    hotkey_queue,           \* hotkey_signal.triggered emissions queued for the main thread
    start_timers,           \* QTimer.singleShot(0, self._start_screenshot) calls that are due
    current_keys            \* SnapTool.current_keys, the keys the pynput listener holds down

vars == <<sc, visible, start_pos, end_pos, is_selecting, edit_mode,
          drawing_paths, current_path, is_drawing, current_tool,
          is_moving, move_start_pos, current_color, current_width,
          current_font_size, draw_start_pos, dragging_shape_index,
          hovered_shape_index, drag_start_pos, param_panel_open,
          hovered_window_rect, hovered_window_id, selected_window_id,
          selected_window_pixmap, text_editing, text_editing_pos,
          text_editing_content, cursor_visible, cursor_timer,
          background_pixmap, dpr, window_offset, geometry, sync_pending,
          toolbar_drawn, saved, pressed, gesture,
          overlay, hotkey_queue, start_timers, current_keys>>

\* the state of the application object, outside the overlay
SnapToolVars == <<overlay, hotkey_queue, start_timers, current_keys>>

----------------------------------------------------------------------------
(* Bounds of the model *)

\* most shapes a run stores
MaxShapes == 2
\* most points a stroke (current_path) collects
MaxPath == 3
\* most characters typed into one text entry
MaxText == 2
\* coordinates of the selection and of dragged shapes stay in 0..MaxCoord
MaxCoord == 130

----------------------------------------------------------------------------
(* Python / Qt values *)

None == <<>>
NoIndex == 0
NoWindow == 0
NoPixmap == "None"
Pixmap == "pixmap"
\* the null QPixmap: what QPixmap.fromImage makes of an invalid image.  A QPixmap
\* object has no __bool__, so that in a condition it is true, null or not
NullPixmap == "null"

Min(a, b) == IF a <= b THEN a ELSE b
Max(a, b) == IF a >= b THEN a ELSE b
Abs(a) == IF a >= 0 THEN a ELSE -a

\* C++ integer division by two (truncation toward zero), as in QRect::center
TruncHalf(n) == IF n >= 0 THEN n \div 2 ELSE -((-n) \div 2)

\* bool(QPoint) in PyQt is "not isNull()": None and QPoint(0, 0) are both falsy
TruthyPoint(p) == p # None /\ p # <<0, 0>>

\* QRect(x, y, w, h)
QRectXYWH(x, y, w, h) == <<x, y, x + w - 1, y + h - 1>>
\* QRect(topLeft, bottomRight)
QRectPP(p1, p2) == <<p1[1], p1[2], p2[1], p2[2]>>
\* QRect()
NullQRect == <<0, 0, -1, -1>>

RectX(r) == r[1]
RectY(r) == r[2]
RectWidth(r) == r[3] - r[1] + 1
RectHeight(r) == r[4] - r[2] + 1
RectCenter(r) == <<TruncHalf(r[1] + r[3]), TruncHalf(r[2] + r[4])>>

\* bool(QRect) in PyQt is isValid(): None and empty rectangles are falsy
TruthyRect(r) == r # None /\ r[1] <= r[3] /\ r[2] <= r[4]

\* QRect.normalized(): swaps the corners of a negative extent, which turns the
\* exclusive corners into inclusive ones
RectNormalized(r) ==
    LET xs == IF r[3] < r[1] THEN <<r[3] + 1, r[1] - 1>> ELSE <<r[1], r[3]>>
        ys == IF r[4] < r[2] THEN <<r[4] + 1, r[2] - 1>> ELSE <<r[2], r[4]>>
    IN  <<xs[1], ys[1], xs[2], ys[2]>>

\* QRect.adjusted(dx1, dy1, dx2, dy2)
RectAdjusted(r, dx1, dy1, dx2, dy2) == <<r[1] + dx1, r[2] + dy1, r[3] + dx2, r[4] + dy2>>

\* QRect.contains(QPoint): edges inclusive
RectContains(r, p) ==
    LET l == IF r[3] < r[1] - 1 THEN r[3] ELSE r[1]
        rr == IF r[3] < r[1] - 1 THEN r[1] ELSE r[3]
        t == IF r[4] < r[2] - 1 THEN r[4] ELSE r[2]
        b == IF r[4] < r[2] - 1 THEN r[2] ELSE r[4]
    IN  /\ p # None
        /\ p[1] >= l /\ p[1] <= rr
        /\ p[2] >= t /\ p[2] <= b

\* QFontMetrics(QFont("", size)): the glyph metrics of the platform font,
\* taken as a fixed advance of size/2 + 2 per character and a line of size + 5
TextWidth(content, size) == Len(content) * ((size \div 2) + 2)
TextHeight(size) == size + 5

----------------------------------------------------------------------------
(* Input profiles: the positions, tools, keys and detected windows of a run *)

Scenarios == {"select", "draw", "pen", "line", "text", "panel", "origin"}

\* pointer positions used before the selection is made
ScSel(s) ==
    CASE s = "select" -> {<<0, 0>>, <<10, 10>>, <<15, 15>>, <<16, 16>>, <<120, 95>>}
      [] s \in {"mac", "hidpi"} -> {<<15, 7>>, <<110, 95>>}
      [] s = "origin" -> {<<0, 95>>, <<120, 0>>}
      [] OTHER -> {<<10, 10>>, <<120, 95>>}

\* pointer positions used in edit mode
ScPts(s) ==
    CASE s = "select" -> {<<20, 20>>, <<30, 30>>}
      [] s = "draw" -> {<<20, 20>>, <<60, 50>>, <<40, 60>>}
      [] s = "pen" -> {<<20, 20>>, <<60, 50>>, <<40, 60>>}
      [] s = "line" -> {<<20, 20>>, <<60, 50>>}
      [] s = "erase" -> {<<20, 20>>, <<60, 50>>, <<40, 35>>, <<40, 60>>, <<100, 90>>}
      [] s = "drag" -> {<<20, 20>>, <<40, 35>>, <<100, 90>>}
      [] s = "text" -> {<<30, 30>>, <<60, 80>>}
      [] s = "panel" -> {<<30, 30>>, <<125, 100>>}
      [] s = "params" -> {<<30, 30>>}
      [] s = "mac" -> {<<30, 30>>}
      [] s = "hidpi" -> {<<30, 30>>}
      [] s = "origin" -> {<<0, 0>>, <<30, 30>>}

\* tool buttons the user clicks
ScTools(s) ==
    CASE s = "select" -> {"move"}
      [] s = "draw" -> {"rect", "eraser"}
      [] s = "pen" -> {"pen"}
      [] s = "line" -> {"line", "arrow"}
      [] s = "erase" -> {}
      [] s = "drag" -> {}
      [] s = "text" -> {"text", "move"}
      [] s = "panel" -> {"text"}
      [] s = "params" -> {"rect", "text"}
      [] s = "mac" -> {}
      [] s = "hidpi" -> {}
      [] s = "origin" -> {"circle", "arrow"}

\* keys the user presses, other than characters
ScKeys(s) ==
    CASE s = "text" -> {"Return", "Escape", "Backspace"}
      [] s = "panel" -> {"Return"}
      [] s = "params" -> {"Return"}
      [] s = "select" -> {"Escape"}
      [] s = "line" -> {"Escape"}
      [] OTHER -> {}

\* the character the user types at position k of a text: "hihi..."
ScChar(s, k) ==
    IF s \notin {"text", "panel", "params"} THEN {} ELSE IF k % 2 = 1 THEN {"h"} ELSE {"i"}

\* whether the pointer is moved with no button down (hover)
ScHover(s) == s \in {"select", "origin"}

\* whether the user double-clicks
ScDouble(s) == s \in {"select", "origin"}

\* self.detected_windows, topmost first: id, screen rectangle, layer
ScWins(s) ==
    IF s = "select"
    THEN << [id |-> 7, rect |-> QRectXYWH(10, 10, 60, 40), layer |-> 0] >>
    ELSE IF s = "origin"
    THEN << [id |-> 9, rect |-> QRectXYWH(0, 0, 125, 100), layer |-> 0] >>
    ELSE << >>

\* what _capture_screen has returned for the screen
ScScreens(s) == IF s = "select" THEN {Pixmap, NullPixmap} ELSE {Pixmap}

\* self.screen_geometry.topLeft()
ScreenOrigin == <<0, 0>>

\* self.screen_geometry: the screen of the session, in logical pixels
ScreenGeometry == QRectXYWH(ScreenOrigin[1], ScreenOrigin[2], 200, 150)

\* sys.platform == 'darwin'
ScDarwin(s) == s = "mac"

\* the devicePixelRatio the screen reports
ScreenDprs == {<<1, 1>>, <<2, 1>>, <<3, 2>>}

\* width and height of the screen capture, in physical pixels
ScBuffer(s) == IF s = "hidpi" THEN <<301, 225>> ELSE <<400, 300>>

\* the geometries the window system gives the overlay: the screen, one logical
\* pixel narrower, below a menu bar, and collapsed to no width
ScGeometries(s) ==
    { ScreenGeometry,
      QRectXYWH(ScreenOrigin[1], ScreenOrigin[2], 199, 150),
      QRectXYWH(ScreenOrigin[1], ScreenOrigin[2] + 10, 200, 140),
      QRectXYWH(ScreenOrigin[1], ScreenOrigin[2], 0, 150) }

----------------------------------------------------------------------------
(* Hit testing *)

SqDist(p, q) == (p[1] - q[1]) * (p[1] - q[1]) + (p[2] - q[2]) * (p[2] - q[2])

\* _point_to_line_distance: the squared distance from point to the segment, as
\* the fraction <<numerator, denominator>>.  With t the clamped projection
\* parameter, t = 0 gives |p - a|, t = 1 gives |p - b|, and in between the
\* squared distance is |p - a|^2 - dot^2 / line_len_sq.
_point_to_line_distance(point, line_start, line_end) ==
    LET line_len_sq == SqDist(line_start, line_end)
        dot == (point[1] - line_start[1]) * (line_end[1] - line_start[1])
               + (point[2] - line_start[2]) * (line_end[2] - line_start[2])
    IN  IF line_len_sq = 0 THEN <<SqDist(point, line_start), 1>>
        ELSE IF dot <= 0 THEN <<SqDist(point, line_start), 1>>
        ELSE IF dot >= line_len_sq THEN <<SqDist(point, line_end), 1>>
        ELSE <<SqDist(point, line_start) * line_len_sq - dot * dot, line_len_sq>>

\* a plausible slip: the limit itself counted as below it
DistBelowHalfInclusive(d, limit) == 4 * d[1] <= limit * limit * d[2]

\* distance < limit / 2, for a squared distance given as a fraction
\* (tolerance * 1.5 = 12 is passed as limit 24)
DistBelowHalf(d, limit) == 4 * d[1] < limit * limit * d[2]

\* distance <= radius, for a squared distance given as a fraction
DistWithin(d, radius) == d[1] <= radius * radius * d[2]

\* the any-segment loop of _point_in_shape for a pen path
RECURSIVE PenSegmentHit(_, _, _)
PenSegmentHit(pos, data, i) ==
    IF i >= Len(data) THEN FALSE
    ELSE IF DistBelowHalf(_point_to_line_distance(pos, data[i], data[i + 1]), 8 * 3) THEN TRUE
    ELSE PenSegmentHit(pos, data, i + 1)

_point_in_shape(pos, shape_type, data, size) ==
    IF shape_type = "text" /\ Len(data) = 2 THEN
        LET text_pos == data[1]
            text_width == TextWidth(data[2], size)
            text_height == TextHeight(size)
            text_rect == QRectXYWH(text_pos[1] - 8, text_pos[2] - text_height - 8,
                                   text_width + 8 * 2, text_height + 8 * 2)
        IN  RectContains(text_rect, pos)
    ELSE IF shape_type = "rect" /\ Len(data) = 2 THEN
        LET rect == RectNormalized(QRectPP(data[1], data[2]))
            expanded == RectAdjusted(rect, -8, -8, 8, 8)
        IN  RectContains(expanded, pos)
    ELSE IF shape_type = "circle" /\ Len(data) = 2 THEN
        \* a = width/2 + 8, b = height/2 + 8; (dx/a)^2 + (dy/b)^2 <= 1 with both
        \* sides multiplied by (2a)^2 (2b)^2; 2a = 0 or 2b = 0 returns False
        LET rect == RectNormalized(QRectPP(data[1], data[2]))
            c == RectCenter(rect)
            a2 == RectWidth(rect) + 2 * 8
            b2 == RectHeight(rect) + 2 * 8
            dx == pos[1] - c[1]
            dy == pos[2] - c[2]
        IN  IF a2 = 0 \/ b2 = 0 THEN FALSE
            ELSE 4 * dx * dx * b2 * b2 + 4 * dy * dy * a2 * a2 <= a2 * a2 * b2 * b2
    ELSE IF shape_type \in {"arrow", "line"} /\ Len(data) = 2 THEN
        DistBelowHalf(_point_to_line_distance(pos, data[1], data[2]), 8 * 3)
    ELSE IF shape_type = "pen" /\ Len(data) > 1 THEN
        PenSegmentHit(pos, data, 1)
    ELSE FALSE

\* the reverse scan of _get_shape_at_pos, from index i down to 1
RECURSIVE ScanShapesFrom(_, _, _)
ScanShapesFrom(paths, pos, i) ==
    IF i < 1 THEN NoIndex
    ELSE IF _point_in_shape(pos, paths[i].type, paths[i].data, paths[i].size) THEN i
    ELSE ScanShapesFrom(paths, pos, i - 1)

\* a plausible slip: scanning in creation order, so the first-drawn shape wins
ScanShapesForward(paths, pos) ==
    LET hits == {i \in 1..Len(paths) :
                    _point_in_shape(pos, paths[i].type, paths[i].data, paths[i].size)}
    IN  IF hits = {} THEN NoIndex ELSE CHOOSE i \in hits : \A j \in hits : i <= j

_get_shape_at_pos(paths, pos) == ScanShapesFrom(paths, pos, Len(paths))

----------------------------------------------------------------------------
(* Erasing *)

\* point_to_segment_distance, nested in _erase_paths: squared distance as a
\* fraction, computed as in _point_to_line_distance
point_to_segment_distance(p, a, b) ==
    LET dx == b[1] - a[1]
        dy == b[2] - a[2]
        dot == (p[1] - a[1]) * dx + (p[2] - a[2]) * dy
        len_sq == dx * dx + dy * dy
    IN  IF dx = 0 /\ dy = 0 THEN <<SqDist(p, a), 1>>
        ELSE IF dot <= 0 THEN <<SqDist(p, a), 1>>
        ELSE IF dot >= len_sq THEN <<SqDist(p, b), 1>>
        ELSE <<SqDist(p, a) * len_sq - dot * dot, len_sq>>

\* a plausible slip: the distance to the end points of the segment only
SegmentErasedEndpoints(eraser_path, erase_radius, a, b) ==
    \E k \in 1..Len(eraser_path) :
        \/ SqDist(eraser_path[k], a) <= erase_radius * erase_radius
        \/ SqDist(eraser_path[k], b) <= erase_radius * erase_radius

\* some eraser point lies within erase_radius of the segment a-b
SegmentErased(eraser_path, erase_radius, a, b) ==
    \E k \in 1..Len(eraser_path) :
        DistWithin(point_to_segment_distance(eraser_path[k], a, b), erase_radius)

\* the circle branch: with W = |width|, H = |height| (twice the radii),
\* DX = 2 dx, DY = 2 dy, N = DX^2 H^2 + DY^2 W^2, Mx = max(W, H), Mn = min(W, H):
\* |sqrt(N / (W H)^2) - 1| * Mx / 2 <= erase_radius
CircleErased(eraser_path, erase_radius, data) ==
    LET rect == QRectPP(data[1], data[2])
        W == Abs(RectWidth(rect))
        H == Abs(RectHeight(rect))
        Mx == Max(W, H)
        Mn == Min(W, H)
    IN  \E k \in 1..Len(eraser_path) :
            LET DX == 2 * eraser_path[k][1] - (rect[1] + rect[3])
                DY == 2 * eraser_path[k][2] - (rect[2] + rect[4])
                N == DX * DX * H * H + DY * DY * W * W
            IN  /\ W > 0 /\ H > 0
                /\ N <= (Mx + 2 * erase_radius) * (Mx + 2 * erase_radius) * Mn * Mn
                /\ \/ Mx <= 2 * erase_radius
                   \/ N >= (Mx - 2 * erase_radius) * (Mx - 2 * erase_radius) * Mn * Mn

path_intersects_eraser(shape_type, data, eraser_path, erase_radius) ==
    IF shape_type = "pen" /\ Len(data) > 1 THEN
        \E i \in 1..(Len(data) - 1) :
            SegmentErased(eraser_path, erase_radius, data[i], data[i + 1])
    ELSE IF shape_type = "rect" /\ Len(data) = 2 THEN
        LET left == data[1][1]
            top == data[1][2]
            right == data[2][1]
            bottom == data[2][2]
        IN  \/ SegmentErased(eraser_path, erase_radius, <<left, top>>, <<right, top>>)
            \/ SegmentErased(eraser_path, erase_radius, <<right, top>>, <<right, bottom>>)
            \/ SegmentErased(eraser_path, erase_radius, <<right, bottom>>, <<left, bottom>>)
            \/ SegmentErased(eraser_path, erase_radius, <<left, bottom>>, <<left, top>>)
    ELSE IF shape_type = "circle" /\ Len(data) = 2 THEN
        CircleErased(eraser_path, erase_radius, data)
    ELSE IF shape_type \in {"arrow", "line"} /\ Len(data) = 2 THEN
        SegmentErased(eraser_path, erase_radius, data[1], data[2])
    ELSE IF shape_type = "text" /\ Len(data) = 2 THEN
        \E k \in 1..Len(eraser_path) :
            SqDist(eraser_path[k], data[1]) <= (erase_radius + 30) * (erase_radius + 30)
    ELSE FALSE

\* a plausible slip: the radius taken as four times the stroke width
ErasePathsWide(paths, width, eraser_path) ==
    LET erase_radius == width * 4
        Keep(item) == ~path_intersects_eraser(item.type, item.data, eraser_path, erase_radius)
    IN  SelectSeq(paths, Keep)

\* _erase_paths: the filtered drawing_paths
_erase_paths(paths, width, eraser_path) ==
    LET erase_radius == width * 3
        Keep(item) == ~path_intersects_eraser(item.type, item.data, eraser_path, erase_radius)
    IN  SelectSeq(paths, Keep)

----------------------------------------------------------------------------
(* The overlay object as one value, so that a handler is a function from the
   state before to the state after *)

Self ==
    [ visible |-> visible, start_pos |-> start_pos, end_pos |-> end_pos,
      is_selecting |-> is_selecting, edit_mode |-> edit_mode,
      drawing_paths |-> drawing_paths, current_path |-> current_path,
      is_drawing |-> is_drawing, current_tool |-> current_tool,
      is_moving |-> is_moving, move_start_pos |-> move_start_pos,
      current_color |-> current_color, current_width |-> current_width,
      current_font_size |-> current_font_size, draw_start_pos |-> draw_start_pos,
      dragging_shape_index |-> dragging_shape_index,
      hovered_shape_index |-> hovered_shape_index, drag_start_pos |-> drag_start_pos,
      param_panel_open |-> param_panel_open,
      hovered_window_rect |-> hovered_window_rect, hovered_window_id |-> hovered_window_id,
      selected_window_id |-> selected_window_id,
      selected_window_pixmap |-> selected_window_pixmap,
      text_editing |-> text_editing, text_editing_pos |-> text_editing_pos,
      text_editing_content |-> text_editing_content,
      cursor_visible |-> cursor_visible, cursor_timer |-> cursor_timer,
      background_pixmap |-> background_pixmap,
      dpr |-> dpr, window_offset |-> window_offset, geometry |-> geometry,
      sync_pending |-> sync_pending,
      toolbar_drawn |-> toolbar_drawn, saved |-> saved ]

Apply(n) ==
    /\ visible' = n.visible /\ start_pos' = n.start_pos /\ end_pos' = n.end_pos
    /\ is_selecting' = n.is_selecting /\ edit_mode' = n.edit_mode
    /\ drawing_paths' = n.drawing_paths /\ current_path' = n.current_path
    /\ is_drawing' = n.is_drawing /\ current_tool' = n.current_tool
    /\ is_moving' = n.is_moving /\ move_start_pos' = n.move_start_pos
    /\ current_color' = n.current_color /\ current_width' = n.current_width
    /\ current_font_size' = n.current_font_size /\ draw_start_pos' = n.draw_start_pos
    /\ dragging_shape_index' = n.dragging_shape_index
    /\ hovered_shape_index' = n.hovered_shape_index /\ drag_start_pos' = n.drag_start_pos
    /\ param_panel_open' = n.param_panel_open
    /\ hovered_window_rect' = n.hovered_window_rect
    /\ hovered_window_id' = n.hovered_window_id
    /\ selected_window_id' = n.selected_window_id
    /\ selected_window_pixmap' = n.selected_window_pixmap
    /\ text_editing' = n.text_editing /\ text_editing_pos' = n.text_editing_pos
    /\ text_editing_content' = n.text_editing_content
    /\ cursor_visible' = n.cursor_visible /\ cursor_timer' = n.cursor_timer
    /\ background_pixmap' = n.background_pixmap
    /\ dpr' = n.dpr /\ window_offset' = n.window_offset /\ geometry' = n.geometry
    /\ sync_pending' = n.sync_pending
    /\ toolbar_drawn' = n.toolbar_drawn /\ saved' = n.saved

\* QWidget.close()
close(s) == [s EXCEPT !.visible = FALSE]

\* QPixmap.width(), QPixmap.height(): a null pixmap has none
PixmapSize(pixmap) == IF pixmap = Pixmap THEN ScBuffer(sc) ELSE <<0, 0>>

RECURSIVE GCD(_, _)
GCD(a, b) == IF b = 0 THEN a ELSE GCD(b, a % b)

\* the fraction n / d (n >= 0, d > 0) in lowest terms: one value for one scale
Fraction(n, d) == <<n \div GCD(n, d), d \div GCD(n, d)>>

\* abs(a - b) > n / d, for fractions a and b in lowest terms: an integer is
\* above a quotient when it is above its integral part
FracDiffAbove(a, b, n, d) ==
    a # b /\ Abs(a[1] * b[2] - b[1] * a[2]) > (n * a[2] * b[2]) \div d

\* int(n / d): truncation toward zero, d > 0
TruncDiv(n, d) == IF n >= 0 THEN n \div d ELSE -((-n) \div d)

\* a plausible slip: the products rounded to the nearest pixel
RectToScreenPixelsRounded(s, rect) ==
    LET offset == IF ScDarwin(sc) THEN s.window_offset ELSE <<0, 0>>
        Round(n) == (2 * n + s.dpr[2]) \div (2 * s.dpr[2])
    IN  QRectXYWH(Round((RectX(rect) + offset[1]) * s.dpr[1]),
                  Round((RectY(rect) + offset[2]) * s.dpr[1]),
                  Round(RectWidth(rect) * s.dpr[1]),
                  Round(RectHeight(rect) * s.dpr[1]))

_rect_to_screen_pixels(s, rect) ==
    LET offset == IF ScDarwin(sc) THEN s.window_offset ELSE <<0, 0>>
    IN  QRectXYWH(TruncDiv((RectX(rect) + offset[1]) * s.dpr[1], s.dpr[2]),
                  TruncDiv((RectY(rect) + offset[2]) * s.dpr[1], s.dpr[2]),
                  TruncDiv(RectWidth(rect) * s.dpr[1], s.dpr[2]),
                  TruncDiv(RectHeight(rect) * s.dpr[1], s.dpr[2]))

\* a plausible slip: the scale replaced whenever it differs, with no threshold
SyncDprNoHysteresis(s, pixel_width, pixel_height) ==
    LET logical_width == RectWidth(s.geometry)
        logical_height == RectHeight(s.geometry)
    IN  IF logical_width <= 0 \/ logical_height <= 0 THEN s
        ELSE IF pixel_width <= 0 \/ pixel_height <= 0 THEN s
        ELSE [s EXCEPT !.dpr = Fraction(pixel_width * logical_height
                                            + pixel_height * logical_width,
                                        2 * logical_width * logical_height)]

\* _sync_dpr_with_capture; dpr_x <= 0 or dpr_y <= 0 is, for positive logical
\* sizes, pixel_width <= 0 or pixel_height <= 0
_sync_dpr_with_capture(s, pixel_width, pixel_height) ==
    LET logical_width == RectWidth(s.geometry)
        logical_height == RectHeight(s.geometry)
        effective_dpr == Fraction(pixel_width * logical_height
                                      + pixel_height * logical_width,
                                  2 * logical_width * logical_height)
    IN  IF logical_width <= 0 \/ logical_height <= 0 THEN s
        ELSE IF pixel_width <= 0 \/ pixel_height <= 0 THEN s
        ELSE IF FracDiffAbove(effective_dpr, s.dpr, 1, 100)
        THEN [s EXCEPT !.dpr = effective_dpr]
        ELSE s

\* the callback of QTimer.singleShot(0, self._post_show_sync); a QPixmap is
\* true in `if not self.background_pixmap`, null or not
_post_show_sync(s) ==
    LET s0 == [s EXCEPT !.sync_pending = FALSE]
    IN  IF s0.background_pixmap = NoPixmap THEN s0
        ELSE IF ScDarwin(sc)
        THEN [s0 EXCEPT !.window_offset =
                    <<RectX(s0.geometry) - ScreenOrigin[1], RectY(s0.geometry) - ScreenOrigin[2]>>]
        ELSE _sync_dpr_with_capture(s0, PixmapSize(s0.background_pixmap)[1],
                                    PixmapSize(s0.background_pixmap)[2])

\* resizeEvent, with the geometry the widget has been given
resizeEvent(s, g) ==
    [s EXCEPT !.geometry = g,
              !.sync_pending = IF ScDarwin(sc) /\ s.background_pixmap # NoPixmap
                               THEN TRUE ELSE s.sync_pending]

\* the stroke widths the parameter panel offers
WidthOptions == {2, 4, 6}

tools_with_params == {"rect", "circle", "pen", "arrow", "line", "text"}

\* paintEvent, as far as it changes the object: _draw_toolbar creates the button
\* rectangles and _draw_param_panel closes the panel of a tool without parameters.
\* The toolbar is drawn only under "if self.start_pos and self.end_pos".
paintEvent(s) ==
    IF s.visible /\ s.edit_mode /\ TruthyPoint(s.start_pos) /\ TruthyPoint(s.end_pos)
    THEN [s EXCEPT !.toolbar_drawn = TRUE,
                   !.param_panel_open = IF s.current_tool \in tools_with_params
                                        THEN s.param_panel_open ELSE FALSE]
    ELSE s

_get_selection_rect(s) ==
    IF ~TruthyPoint(s.start_pos) \/ ~TruthyPoint(s.end_pos) THEN NullQRect
    ELSE QRectXYWH(Min(s.start_pos[1], s.end_pos[1]), Min(s.start_pos[2], s.end_pos[2]),
                   Abs(s.end_pos[1] - s.start_pos[1]), Abs(s.end_pos[2] - s.start_pos[2]))

\* the window loop of _get_window_at_pos, from entry i on: <<rect, id>>
RECURSIVE WindowScan(_, _, _)
WindowScan(wins, screen_pos, i) ==
    IF i > Len(wins) THEN <<None, NoWindow>>
    ELSE IF wins[i].layer > 0 THEN WindowScan(wins, screen_pos, i + 1)
    ELSE IF RectContains(wins[i].rect, screen_pos)
         THEN << QRectXYWH(RectX(wins[i].rect) - ScreenOrigin[1],
                           RectY(wins[i].rect) - ScreenOrigin[2],
                           RectWidth(wins[i].rect), RectHeight(wins[i].rect)),
                 wins[i].id >>
    ELSE WindowScan(wins, screen_pos, i + 1)

_get_window_at_pos(wins, pos) ==
    IF wins = << >> THEN <<None, NoWindow>>
    ELSE WindowScan(wins, <<pos[1] + ScreenOrigin[1], pos[2] + ScreenOrigin[2]>>, 1)

\* [QPoint(p.x() + dx, p.y() + dy) for p in data]
RECURSIVE ShiftAll(_, _, _)
ShiftAll(data, dx, dy) ==
    IF data = << >> THEN << >>
    ELSE <<(<<Head(data)[1] + dx, Head(data)[2] + dy>>)>> \o ShiftAll(Tail(data), dx, dy)

\* a plausible slip: the drag origin not advanced, so that every move applies
\* the whole displacement since the pointer-down again
MoveShapeFromOrigin(s, index, new_pos) ==
    IF s.drag_start_pos = None THEN s
    ELSE
        LET sh == s.drawing_paths[index]
            dx == new_pos[1] - s.drag_start_pos[1]
            dy == new_pos[2] - s.drag_start_pos[2]
            data == IF sh.type = "text"
                        THEN <<(<<sh.data[1][1] + dx, sh.data[1][2] + dy>>), sh.data[2]>>
                    ELSE ShiftAll(sh.data, dx, dy)
        IN  [s EXCEPT !.drawing_paths[index] = [sh EXCEPT !.data = data]]

\* a plausible slip: the moved points kept on the screen (no negative coordinate)
MoveShapeClamped(s, index, new_pos) ==
    IF s.drag_start_pos = None THEN s
    ELSE
        LET sh == s.drawing_paths[index]
            dx == new_pos[1] - s.drag_start_pos[1]
            dy == new_pos[2] - s.drag_start_pos[2]
            Shift(p) == <<Max(p[1] + dx, 0), Max(p[2] + dy, 0)>>
            data == IF sh.type = "text"
                        THEN <<Shift(sh.data[1]), sh.data[2]>>
                    ELSE [k \in 1..Len(sh.data) |-> Shift(sh.data[k])]
        IN  [s EXCEPT !.drawing_paths[index] = [sh EXCEPT !.data = data],
                      !.drag_start_pos = new_pos]

\* a plausible slip: the moved shape raised to the top of the Shape Model
MoveShapeToFront(s, index, new_pos) ==
    IF s.drag_start_pos = None THEN s
    ELSE
        LET sh == s.drawing_paths[index]
            dx == new_pos[1] - s.drag_start_pos[1]
            dy == new_pos[2] - s.drag_start_pos[2]
            data == IF sh.type = "text"
                        THEN <<(<<sh.data[1][1] + dx, sh.data[1][2] + dy>>), sh.data[2]>>
                    ELSE ShiftAll(sh.data, dx, dy)
            rest == SubSeq(s.drawing_paths, 1, index - 1)
                        \o SubSeq(s.drawing_paths, index + 1, Len(s.drawing_paths))
        IN  [s EXCEPT !.drawing_paths = Append(rest, [sh EXCEPT !.data = data]),
                      !.drag_start_pos = new_pos]

\* the shape at index moved by new_pos - drag_start_pos
_move_shape(s, index, new_pos) ==
    IF s.drag_start_pos = None THEN s
    ELSE
        LET sh == s.drawing_paths[index]
            dx == new_pos[1] - s.drag_start_pos[1]
            dy == new_pos[2] - s.drag_start_pos[2]
            Shift(p) == <<p[1] + dx, p[2] + dy>>
            data == IF sh.type = "text" /\ Len(sh.data) = 2
                        THEN <<Shift(sh.data[1]), sh.data[2]>>
                    ELSE IF sh.type \in {"rect", "circle", "arrow", "line"} /\ Len(sh.data) = 2
                        THEN <<Shift(sh.data[1]), Shift(sh.data[2])>>
                    ELSE IF sh.type = "pen" /\ Len(sh.data) > 0
                        THEN ShiftAll(sh.data, dx, dy)
                    ELSE sh.data
        IN  [s EXCEPT !.drawing_paths[index] = [sh EXCEPT !.data = data],
                      !.drag_start_pos = new_pos]

\* a plausible slip: the commit without the test for an empty content
CommitTextUnchecked(s) ==
    [s EXCEPT !.drawing_paths = IF s.text_editing
                                THEN Append(s.drawing_paths,
                                        [type |-> "text", color |-> s.current_color,
                                         size |-> s.current_font_size,
                                         data |-> <<s.text_editing_pos, s.text_editing_content>>])
                                ELSE s.drawing_paths,
              !.cursor_timer = IF s.cursor_timer # "None" THEN "stopped" ELSE "None",
              !.text_editing = FALSE,
              !.text_editing_pos = None,
              !.text_editing_content = << >>]

\* a plausible slip: the commit that leaves text entry switched on
CommitTextKeepEditing(s) ==
    [s EXCEPT !.drawing_paths = IF s.text_editing /\ s.text_editing_content # << >>
                                THEN Append(s.drawing_paths,
                                        [type |-> "text", color |-> s.current_color,
                                         size |-> s.current_font_size,
                                         data |-> <<s.text_editing_pos, s.text_editing_content>>])
                                ELSE s.drawing_paths,
              !.cursor_timer = IF s.cursor_timer # "None" THEN "stopped" ELSE "None",
              !.text_editing_pos = None,
              !.text_editing_content = << >>]

_commit_text_editing(s) ==
    LET paths == IF s.text_editing /\ s.text_editing_content # << >>
                 THEN Append(s.drawing_paths,
                             [type |-> "text", color |-> s.current_color,
                              size |-> s.current_font_size,
                              data |-> <<s.text_editing_pos, s.text_editing_content>>])
                 ELSE s.drawing_paths
    IN  [s EXCEPT !.drawing_paths = paths,
                  !.cursor_timer = IF s.cursor_timer # "None" THEN "stopped" ELSE "None",
                  !.text_editing = FALSE,
                  !.text_editing_pos = None,
                  !.text_editing_content = << >>]

_show_text_input(s, pos) ==
    LET s1 == IF s.text_editing THEN _commit_text_editing(s) ELSE s
    IN  [s1 EXCEPT !.text_editing = TRUE,
                   !.text_editing_pos = pos,
                   !.text_editing_content = << >>,
                   !.cursor_visible = TRUE,
                   !.cursor_timer = "running"]

_toggle_cursor(s) ==
    IF s.text_editing THEN [s EXCEPT !.cursor_visible = ~s.cursor_visible] ELSE s

\* a plausible slip: the export always cropped from the full-screen buffer
SaveScreenshotCropOnly(s, rect, recapture) ==
    IF s.background_pixmap # NoPixmap
    THEN [s EXCEPT !.saved = Append(s.saved,
                [src |-> "crop", image |-> s.background_pixmap, rect |-> rect,
                 src_rect |-> _rect_to_screen_pixels(s, rect),
                 shapes |-> s.drawing_paths])]
    ELSE s

\* _save_screenshot; recapture is what _capture_single_window returns when it
\* is called again.  An export is the record of what on_capture_done is called
\* for: the pixmap copied (src, image), the rectangle, the source rectangle of
\* a crop in physical pixels and the shapes painted.
\* background_pixmap is a QPixmap in every live session (the constructor
\* assigns what _capture_screen returns), so the fallback meets no None.
_save_screenshot(s, rect, recapture) ==
    LET Export(src, image) ==
            [s EXCEPT !.saved = Append(s.saved,
                            [src |-> src, image |-> image, rect |-> rect,
                             src_rect |-> IF src = "crop"
                                          THEN _rect_to_screen_pixels(s, rect) ELSE None,
                             shapes |-> s.drawing_paths])]
    IN  IF s.selected_window_pixmap # NoPixmap THEN Export("window", s.selected_window_pixmap)
        ELSE IF s.selected_window_id # NoWindow THEN
            IF recapture # NoPixmap THEN Export("window", recapture)
            ELSE Export("crop", s.background_pixmap)
        ELSE IF s.background_pixmap # NoPixmap THEN Export("crop", s.background_pixmap)
        ELSE s

----------------------------------------------------------------------------
(* Events.  A pointer event carries its position and the toolbar control whose
   rectangle contains it: ctl is "none" for a position on no control, and then
   pos is a point; the toolbar lies outside the selection rectangle (it is
   drawn at rect.bottom() + 15 or above rect.top()), so a position on a control
   has pos = None and is inside no rectangle. *)

NoItem == [type |-> "", color |-> "", num |-> 0]

AtPoint(p) == [ctl |-> "none", pos |-> p, tool |-> "", item |-> NoItem]
OnControl(c) == [ctl |-> c, pos |-> None, tool |-> "", item |-> NoItem]
OnTool(t) == [ctl |-> "tool", pos |-> None, tool |-> t, item |-> NoItem]
OnItem(it) == [ctl |-> "item", pos |-> None, tool |-> "", item |-> it]

\* the canvas part of mousePressEvent: the press is inside the selection
PressOnCanvas(s, pos) ==
    LET s0 == [s EXCEPT !.param_panel_open = FALSE]
        shape_index == _get_shape_at_pos(s0.drawing_paths, pos)
        StartDrag == [s0 EXCEPT !.dragging_shape_index = shape_index,
                                !.drag_start_pos = pos]
    IN  IF s0.current_tool # "text" /\ shape_index # NoIndex THEN StartDrag
        ELSE IF s0.current_tool = "move" THEN
            [s0 EXCEPT !.is_moving = TRUE,
                       !.move_start_pos = pos,
                       !.selected_window_id = NoWindow,
                       !.selected_window_pixmap = NoPixmap]
        ELSE IF s0.current_tool = "text" THEN
            IF s0.text_editing THEN _commit_text_editing(s0)
            ELSE IF shape_index # NoIndex THEN StartDrag
            ELSE _show_text_input(s0, pos)
        ELSE
            [s0 EXCEPT !.is_drawing = TRUE,
                       !.draw_start_pos = pos,
                       !.current_path = <<pos>>]

\* a plausible slip: the tool switch without the commit of the text in progress
PressOnToolKeepText(s, new_tool) ==
    IF new_tool = s.current_tool /\ new_tool \in tools_with_params
    THEN [s EXCEPT !.param_panel_open = ~s.param_panel_open]
    ELSE [s EXCEPT !.current_tool = new_tool,
                   !.param_panel_open = (new_tool \in tools_with_params)]

\* a plausible slip: the button of the current tool opening the panel, never
\* closing it
PressOnToolOpens(s, new_tool) ==
    LET s1 == IF s.text_editing THEN _commit_text_editing(s) ELSE s
    IN  [s1 EXCEPT !.current_tool = new_tool,
                   !.param_panel_open = (new_tool \in tools_with_params)]

\* the tool-button part of mousePressEvent
PressOnTool(s, new_tool) ==
    LET s1 == IF s.text_editing THEN _commit_text_editing(s) ELSE s
    IN  IF new_tool = s.current_tool /\ new_tool \in tools_with_params
        THEN [s1 EXCEPT !.param_panel_open = ~s1.param_panel_open]
        ELSE [s1 EXCEPT !.current_tool = new_tool,
                        !.param_panel_open = (new_tool \in tools_with_params)]

\* a plausible slip: undo removing the first-drawn shape
PressOnUndoOldest(s) == [s EXCEPT !.drawing_paths = Tail(s.drawing_paths)]

\* the undo-button part of mousePressEvent: self.drawing_paths.pop()
PressOnUndo(s) ==
    [s EXCEPT !.drawing_paths = SubSeq(s.drawing_paths, 1, Len(s.drawing_paths) - 1)]

\* a plausible slip: one size for strokes and texts, as a stored shape has
PressOnItemOneSize(s, item) ==
    IF item.type = "color" THEN [s EXCEPT !.current_color = item.color]
    ELSE [s EXCEPT !.current_width = item.num, !.current_font_size = item.num]

\* the parameter-panel part of mousePressEvent: (item_type, item_value) chosen
PressOnItem(s, item) ==
    IF item.type = "color" THEN [s EXCEPT !.current_color = item.color]
    ELSE IF item.type = "width" THEN [s EXCEPT !.current_width = item.num]
    ELSE IF item.type = "font_size" THEN [s EXCEPT !.current_font_size = item.num]
    ELSE s

mousePressEvent(s, ev, recapture) ==
    IF ~s.edit_mode THEN
        [s EXCEPT !.start_pos = ev.pos, !.end_pos = ev.pos, !.is_selecting = TRUE]
    ELSE IF ev.ctl = "cancel" THEN close(s)
    ELSE IF ev.ctl = "confirm" THEN
        LET rect == _get_selection_rect(s)
        IN  IF RectWidth(rect) > 5 /\ RectHeight(rect) > 5
            THEN close(_save_screenshot(s, rect, recapture))
            ELSE close(s)
    ELSE IF ev.ctl = "item" /\ s.param_panel_open THEN PressOnItem(s, ev.item)
    ELSE IF ev.ctl = "tool" THEN PressOnTool(s, ev.tool)
    ELSE IF ev.ctl = "undo" /\ Len(s.drawing_paths) > 0 THEN PressOnUndo(s)
    ELSE IF RectContains(_get_selection_rect(s), ev.pos) THEN PressOnCanvas(s, ev.pos)
    ELSE s

mouseMoveEvent(s, pos) ==
    LET w == _get_window_at_pos(ScWins(sc), pos)
        s1 == IF ~s.edit_mode /\ ~s.is_selecting /\ w[1] # s.hovered_window_rect
              THEN [s EXCEPT !.hovered_window_rect = w[1], !.hovered_window_id = w[2]]
              ELSE s
        s2 == IF /\ s1.edit_mode /\ ~s1.is_drawing /\ ~s1.is_moving
                 /\ s1.dragging_shape_index = NoIndex
                 /\ RectContains(_get_selection_rect(s1), pos)
              THEN [s1 EXCEPT !.hovered_shape_index = _get_shape_at_pos(s1.drawing_paths, pos)]
              ELSE s1
    IN  IF s2.is_selecting THEN [s2 EXCEPT !.end_pos = pos]
        ELSE IF s2.is_moving THEN
            IF TruthyPoint(s2.move_start_pos) THEN
                LET dx == pos[1] - s2.move_start_pos[1]
                    dy == pos[2] - s2.move_start_pos[2]
                IN  [s2 EXCEPT !.start_pos = <<s2.start_pos[1] + dx, s2.start_pos[2] + dy>>,
                               !.end_pos = <<s2.end_pos[1] + dx, s2.end_pos[2] + dy>>,
                               !.move_start_pos = pos]
            ELSE s2
        ELSE IF s2.dragging_shape_index # NoIndex THEN
            _move_shape(s2, s2.dragging_shape_index, pos)
        ELSE IF s2.is_drawing THEN
            IF s2.current_tool \in {"pen", "eraser"}
            THEN [s2 EXCEPT !.current_path = Append(s2.current_path, pos)]
            ELSE IF Len(s2.current_path) > 0
            THEN [s2 EXCEPT !.current_path[Len(s2.current_path)] = pos]
            ELSE [s2 EXCEPT !.current_path = <<pos>>]
        ELSE s2

\* capture is what _capture_single_window returns for the hovered window
mouseReleaseEvent(s, pos, capture) ==
    IF s.is_selecting THEN
        LET s1 == [s EXCEPT !.end_pos = pos, !.is_selecting = FALSE]
            rect == _get_selection_rect(s1)
        IN  IF RectWidth(rect) > 5 /\ RectHeight(rect) > 5 THEN
                [s1 EXCEPT !.edit_mode = TRUE, !.hovered_window_rect = None]
            ELSE IF TruthyRect(s1.hovered_window_rect) THEN
                [s1 EXCEPT !.start_pos = <<s1.hovered_window_rect[1], s1.hovered_window_rect[2]>>,
                           !.end_pos = <<s1.hovered_window_rect[3], s1.hovered_window_rect[4]>>,
                           !.selected_window_id = s1.hovered_window_id,
                           !.selected_window_pixmap = capture,
                           !.edit_mode = TRUE,
                           !.hovered_window_rect = None,
                           !.hovered_window_id = NoWindow]
            ELSE close(s1)
    ELSE IF s.is_moving THEN
        [s EXCEPT !.is_moving = FALSE, !.move_start_pos = None]
    ELSE IF s.dragging_shape_index # NoIndex THEN
        [s EXCEPT !.dragging_shape_index = NoIndex,
                  !.drag_start_pos = None,
                  !.hovered_shape_index = NoIndex]
    ELSE IF s.is_drawing THEN
        LET paths ==
                IF s.current_tool = "eraser" /\ Len(s.current_path) > 1 THEN
                    _erase_paths(s.drawing_paths, s.current_width, s.current_path)
                ELSE IF s.current_tool = "pen" /\ Len(s.current_path) > 1 THEN
                    Append(s.drawing_paths,
                           [type |-> s.current_tool, color |-> s.current_color,
                            size |-> s.current_width, data |-> s.current_path])
                ELSE IF /\ s.current_tool \in {"rect", "circle", "arrow", "line"}
                        /\ TruthyPoint(s.draw_start_pos) /\ Len(s.current_path) > 0 THEN
                    Append(s.drawing_paths,
                           [type |-> s.current_tool, color |-> s.current_color,
                            size |-> s.current_width,
                            data |-> <<s.draw_start_pos, s.current_path[Len(s.current_path)]>>])
                ELSE s.drawing_paths
        IN  [s EXCEPT !.is_drawing = FALSE,
                      !.drawing_paths = paths,
                      !.current_path = << >>,
                      !.draw_start_pos = None]
    ELSE s

\* a plausible slip: Escape closing the overlay also during text entry
KeyPressEscapeCloses(s, key) ==
    IF key = "Escape" THEN close(s)
    ELSE IF ~s.text_editing THEN s
    ELSE IF key = "Return" THEN _commit_text_editing(s)
    ELSE IF key = "Backspace" THEN
        [s EXCEPT !.text_editing_content =
            SubSeq(s.text_editing_content, 1, Max(Len(s.text_editing_content), 1) - 1)]
    ELSE [s EXCEPT !.text_editing_content = Append(s.text_editing_content, key)]

\* keys: "Escape", "Return", "Backspace", or a printable character
keyPressEvent(s, key) ==
    IF s.text_editing THEN
        IF key = "Escape" THEN
            [s EXCEPT !.cursor_timer = IF s.cursor_timer # "None" THEN "stopped" ELSE "None",
                      !.text_editing = FALSE,
                      !.text_editing_content = << >>]
        ELSE IF key = "Return" THEN _commit_text_editing(s)
        ELSE IF key = "Backspace" THEN
            IF s.text_editing_content # << >>
            THEN [s EXCEPT !.text_editing_content =
                        SubSeq(s.text_editing_content, 1, Len(s.text_editing_content) - 1)]
            ELSE s
        ELSE [s EXCEPT !.text_editing_content = Append(s.text_editing_content, key)]
    ELSE IF key = "Escape" THEN close(s)
    ELSE s

\* the buttons mouseDoubleClickEvent looks at (move_btn_rect is not among them)
toolbar_buttons == {"pen", "rect", "circle", "arrow", "line", "eraser", "text"}

mouseDoubleClickEvent(s, ev, recapture) ==
    IF ~s.edit_mode THEN s
    ELSE
        LET clicked_on_toolbar ==
                \/ ev.ctl \in {"cancel", "confirm", "undo"}
                \/ ev.ctl = "tool" /\ ev.tool \in toolbar_buttons
                \/ s.param_panel_open /\ ev.ctl \in {"item", "panel"}
            rect == _get_selection_rect(s)
        IN  IF clicked_on_toolbar THEN s
            ELSE IF RectWidth(rect) > 5 /\ RectHeight(rect) > 5
            THEN close(_save_screenshot(s, rect, recapture))
            ELSE close(s)

----------------------------------------------------------------------------
(* The state machine *)

\* what _capture_single_window may return: a pixmap, or None (no such
\* platform, the capture failed)
CaptureOutcomes == {Pixmap, NoPixmap}

\* the parameter-panel items the user clicks: (item_type, item_value)
ScItems(s) ==
    IF s = "panel"
    THEN { [type |-> "font_size", color |-> "", num |-> 28] }
    ELSE IF s = "params"
    THEN { [type |-> "color", color |-> "blue", num |-> 0],
           [type |-> "width", color |-> "", num |-> 6],
           [type |-> "font_size", color |-> "", num |-> 14] }
    ELSE {}

\* the points of a shape
ShapePoints(sh) ==
    IF sh.type = "text" THEN {sh.data[1]}
    ELSE {sh.data[i] : i \in 1..Len(sh.data)}

InBox(p) == p[1] \in 0..MaxCoord /\ p[2] \in 0..MaxCoord

\* the bounds of the model, as a condition on the state an event leads to
WithinBounds(n) ==
    /\ Len(n.drawing_paths) <= MaxShapes
    /\ (n.is_drawing /\ n.current_tool # "eraser") \/ n.text_editing
            => Len(n.drawing_paths) < MaxShapes
    /\ Len(n.current_path) <= MaxPath
    /\ Len(n.text_editing_content) <= MaxText
    /\ n.start_pos # None => InBox(n.start_pos)
    /\ n.end_pos # None => InBox(n.end_pos)
    /\ \A i \in 1..Len(n.drawing_paths) :
            \A q \in ShapePoints(n.drawing_paths[i]) :
                IF sc \in {"drag", "params"} THEN InBox(q) ELSE q \in ScPts(sc)

\* the pointer events a state offers
PressEvents ==
    IF ~edit_mode THEN {AtPoint(p) : p \in ScSel(sc)}
    ELSE {AtPoint(p) : p \in ScPts(sc)}
         \cup (IF toolbar_drawn
               THEN {OnControl(c) : c \in {"cancel", "confirm", "undo"}}
                    \cup {OnTool(t) : t \in ScTools(sc)}
                    \cup (IF param_panel_open
                          THEN {OnItem(it) : it \in
                                  {x \in ScItems(sc) :
                                      x.type = "color"
                                      \/ x.type = (IF current_tool = "text"
                                                   THEN "font_size" ELSE "width")}}
                          ELSE {})
               ELSE {})

\* the pointer position of the gesture in progress
Pointer == IF gesture = << >> THEN None ELSE gesture[Len(gesture)]

Init ==
    /\ sc \in Scenarios
    /\ visible = TRUE
    /\ start_pos = None /\ end_pos = None
    /\ is_selecting = FALSE /\ edit_mode = FALSE
    /\ drawing_paths = << >> /\ current_path = << >> /\ is_drawing = FALSE
    /\ current_tool = "move"
    /\ is_moving = FALSE /\ move_start_pos = None
    /\ current_color = "red" /\ current_width = 4 /\ current_font_size = 20
    /\ draw_start_pos = None
    /\ dragging_shape_index = NoIndex /\ hovered_shape_index = NoIndex
    /\ drag_start_pos = None
    /\ param_panel_open = FALSE
    /\ hovered_window_rect = None /\ hovered_window_id = NoWindow
    /\ selected_window_id = NoWindow /\ selected_window_pixmap = NoPixmap
    /\ text_editing = FALSE /\ text_editing_pos = None /\ text_editing_content = << >>
    /\ cursor_visible = TRUE /\ cursor_timer = "None"
    /\ background_pixmap \in ScScreens(sc)
    /\ dpr = <<1, 1>> /\ window_offset = <<0, 0>>
    /\ geometry = ScreenGeometry /\ sync_pending = FALSE
    /\ toolbar_drawn = FALSE
    /\ saved = << >>
    /\ pressed = FALSE
    /\ gesture = << >>
    /\ overlay = 1 /\ hotkey_queue = 0 /\ start_timers = 0 /\ current_keys = {}

\* one pointer-down event
MousePressOf(ev, recapture) ==
    /\ visible /\ ~pressed
    /\ LET n == paintEvent(mousePressEvent(Self, ev, recapture))
       IN  /\ WithinBounds(n)
           /\ Apply(n)
    /\ gesture' = IF ev.ctl = "none" THEN <<ev.pos>> ELSE << >>
    /\ pressed' = TRUE
    /\ sc' = sc
    /\ UNCHANGED SnapToolVars

MousePress == \E ev \in PressEvents : \E recapture \in CaptureOutcomes : MousePressOf(ev, recapture)

\* one pointer-move event, to a position other than the pointer's
MouseMoveOf(p) ==
    /\ visible
    /\ pressed \/ ScHover(sc)
    /\ p # Pointer
    /\ Len(gesture) < MaxPath
    /\ LET n == paintEvent(mouseMoveEvent(Self, p))
       IN  /\ WithinBounds(n)
           /\ Apply(n)
    /\ gesture' = IF pressed /\ gesture # << >> THEN Append(gesture, p) ELSE gesture
    /\ UNCHANGED <<pressed, sc>>
    /\ UNCHANGED SnapToolVars

MouseMove == \E p \in (IF edit_mode THEN ScPts(sc) ELSE ScSel(sc)) : MouseMoveOf(p)

\* the pointer-up event, at the pointer's position
MouseReleaseOf(capture) ==
    /\ visible /\ pressed
    /\ LET n == paintEvent(mouseReleaseEvent(Self, Pointer, capture))
       IN  /\ WithinBounds(n)
           /\ Apply(n)
    /\ pressed' = FALSE
    /\ gesture' = << >>
    /\ sc' = sc
    /\ UNCHANGED SnapToolVars

MouseRelease == \E capture \in CaptureOutcomes : MouseReleaseOf(capture)

\* one key event
KeyPressOf(key) ==
    /\ visible
    /\ LET n == paintEvent(keyPressEvent(Self, key))
       IN  /\ WithinBounds(n)
           /\ Apply(n)
    /\ UNCHANGED <<pressed, gesture, sc>>
    /\ UNCHANGED SnapToolVars

KeyPress ==
    \E key \in ScKeys(sc) \cup ScChar(sc, Len(text_editing_content) + 1) : KeyPressOf(key)

\* the second pointer-down of a double click
MouseDoubleClickOf(ev, recapture) ==
    /\ visible /\ ~pressed /\ edit_mode /\ ScDouble(sc)
    /\ LET n == paintEvent(mouseDoubleClickEvent(Self, ev, recapture))
       IN  /\ WithinBounds(n)
           /\ Apply(n)
    /\ pressed' = TRUE
    /\ gesture' = IF ev.ctl = "none" THEN <<ev.pos>> ELSE << >>
    /\ sc' = sc
    /\ UNCHANGED SnapToolVars

MouseDoubleClick ==
    \E ev \in PressEvents : \E recapture \in CaptureOutcomes : MouseDoubleClickOf(ev, recapture)

\* the cursor timer's timeout
CursorBlink ==
    /\ cursor_timer = "running"
    /\ Apply(_toggle_cursor(Self))
    /\ UNCHANGED <<pressed, gesture, sc>>
    /\ UNCHANGED SnapToolVars

Next ==
    \/ MousePress
    \/ MouseMove
    \/ MouseRelease
    \/ KeyPress
    \/ MouseDoubleClick
    \/ CursorBlink

Spec == Init /\ [][Next]_vars

----------------------------------------------------------------------------
(* Erasing on its own: the session is in Editing with the Eraser selected, a
   stroke width chosen in the parameter panel and shapes of every kind stored,
   and the user makes eraser strokes *)

\* a stored shape: (tool, color, width or font size, data)
Shape(kind, size, data) == [type |-> kind, color |-> "red", size |-> size, data |-> data]

EraseCatalog ==
    { Shape("rect", 4, <<(<<20, 20>>), (<<60, 50>>)>>),
      Shape("circle", 4, <<(<<20, 20>>), (<<60, 50>>)>>),
      Shape("line", 4, <<(<<60, 50>>), (<<20, 20>>)>>),
      Shape("pen", 4, <<(<<20, 20>>), (<<40, 60>>), (<<60, 50>>)>>),
      Shape("text", 20, <<(<<100, 90>>), (<<"h", "i">>)>>) }

\* the Shape Models the strokes are made on: one shape, or two different ones
EraseModels ==
    {<<a>> : a \in EraseCatalog}
    \cup {<<ab[1], ab[2]>> : ab \in {x \in EraseCatalog \X EraseCatalog : x[1] # x[2]}}

InitErase ==
    /\ sc = "erase"
    /\ visible = TRUE
    /\ start_pos = <<10, 10>> /\ end_pos = <<120, 95>>
    /\ is_selecting = FALSE /\ edit_mode = TRUE
    /\ drawing_paths \in EraseModels
    /\ current_path = << >> /\ is_drawing = FALSE
    /\ current_tool = "eraser"
    /\ is_moving = FALSE /\ move_start_pos = None
    /\ current_color = "red" /\ current_width \in WidthOptions /\ current_font_size = 20
    /\ draw_start_pos = None
    /\ dragging_shape_index = NoIndex /\ hovered_shape_index = NoIndex
    /\ drag_start_pos = None
    /\ param_panel_open = FALSE
    /\ hovered_window_rect = None /\ hovered_window_id = NoWindow
    /\ selected_window_id = NoWindow /\ selected_window_pixmap = NoPixmap
    /\ text_editing = FALSE /\ text_editing_pos = None /\ text_editing_content = << >>
    /\ cursor_visible = TRUE /\ cursor_timer = "None"
    /\ background_pixmap = Pixmap
    /\ dpr = <<1, 1>> /\ window_offset = <<0, 0>>
    /\ geometry = ScreenGeometry /\ sync_pending = FALSE
    /\ toolbar_drawn = TRUE
    /\ saved = << >>
    /\ pressed = FALSE
    /\ gesture = << >>
    /\ overlay = 1 /\ hotkey_queue = 0 /\ start_timers = 0 /\ current_keys = {}

NextErase ==
    \/ MousePress
    \/ MouseMove
    \/ MouseRelease

SpecErase == InitErase /\ [][NextErase]_vars

----------------------------------------------------------------------------
(* Dragging on its own: the session is in Editing with the Move tool selected
   and shapes of every kind stored, and the user drags what lies under the
   pointer: a shape, or else the selection *)

InitDrag ==
    /\ sc = "drag"
    /\ visible = TRUE
    /\ start_pos = <<10, 10>> /\ end_pos = <<120, 95>>
    /\ is_selecting = FALSE /\ edit_mode = TRUE
    /\ drawing_paths \in EraseModels
    /\ current_path = << >> /\ is_drawing = FALSE
    /\ current_tool = "move"
    /\ is_moving = FALSE /\ move_start_pos = None
    /\ current_color = "red" /\ current_width = 4 /\ current_font_size = 20
    /\ draw_start_pos = None
    /\ dragging_shape_index = NoIndex /\ hovered_shape_index = NoIndex
    /\ drag_start_pos = None
    /\ param_panel_open = FALSE
    /\ hovered_window_rect = None /\ hovered_window_id = NoWindow
    /\ selected_window_id = NoWindow /\ selected_window_pixmap = NoPixmap
    /\ text_editing = FALSE /\ text_editing_pos = None /\ text_editing_content = << >>
    /\ cursor_visible = TRUE /\ cursor_timer = "None"
    /\ background_pixmap = Pixmap
    /\ dpr = <<1, 1>> /\ window_offset = <<0, 0>>
    /\ geometry = ScreenGeometry /\ sync_pending = FALSE
    /\ toolbar_drawn = TRUE
    /\ saved = << >>
    /\ pressed = FALSE
    /\ gesture = << >>
    /\ overlay = 1 /\ hotkey_queue = 0 /\ start_timers = 0 /\ current_keys = {}

NextDrag ==
    \/ MousePress
    \/ MouseMove
    \/ MouseRelease

SpecDrag == InitDrag /\ [][NextDrag]_vars

----------------------------------------------------------------------------
(* The parameter panel on its own: the session is in Editing with a Text shape
   stored, and the user picks tools and parameters, draws and types *)

InitPanel ==
    /\ sc = "params"
    /\ visible = TRUE
    /\ start_pos = <<10, 10>> /\ end_pos = <<120, 95>>
    /\ is_selecting = FALSE /\ edit_mode = TRUE
    /\ drawing_paths = << Shape("text", 20, <<(<<100, 90>>), (<<"h", "i">>)>>) >>
    /\ current_path = << >> /\ is_drawing = FALSE
    /\ current_tool = "move"
    /\ is_moving = FALSE /\ move_start_pos = None
    /\ current_color = "red" /\ current_width = 4 /\ current_font_size = 20
    /\ draw_start_pos = None
    /\ dragging_shape_index = NoIndex /\ hovered_shape_index = NoIndex
    /\ drag_start_pos = None
    /\ param_panel_open = FALSE
    /\ hovered_window_rect = None /\ hovered_window_id = NoWindow
    /\ selected_window_id = NoWindow /\ selected_window_pixmap = NoPixmap
    /\ text_editing = FALSE /\ text_editing_pos = None /\ text_editing_content = << >>
    /\ cursor_visible = TRUE /\ cursor_timer = "None"
    /\ background_pixmap = Pixmap
    /\ dpr = <<1, 1>> /\ window_offset = <<0, 0>>
    /\ geometry = ScreenGeometry /\ sync_pending = FALSE
    /\ toolbar_drawn = TRUE
    /\ saved = << >>
    /\ pressed = FALSE
    /\ gesture = << >>
    /\ overlay = 1 /\ hotkey_queue = 0 /\ start_timers = 0 /\ current_keys = {}

NextPanel ==
    \/ MousePress
    \/ MouseMove
    \/ MouseRelease
    \/ KeyPress

SpecPanel == InitPanel /\ [][NextPanel]_vars

----------------------------------------------------------------------------
(* The Coordinate Transform on its own: the overlay has been constructed on a
   screen with a scale factor and shown; the window system resizes it, the
   post-show callback calibrates, and the user selects a region and confirms *)

InitScale ==
    /\ sc \in {"mac", "hidpi"}
    /\ visible = TRUE
    /\ start_pos = None /\ end_pos = None
    /\ is_selecting = FALSE /\ edit_mode = FALSE
    /\ drawing_paths = << >> /\ current_path = << >> /\ is_drawing = FALSE
    /\ current_tool = "move"
    /\ is_moving = FALSE /\ move_start_pos = None
    /\ current_color = "red" /\ current_width = 4 /\ current_font_size = 20
    /\ draw_start_pos = None
    /\ dragging_shape_index = NoIndex /\ hovered_shape_index = NoIndex
    /\ drag_start_pos = None
    /\ param_panel_open = FALSE
    /\ hovered_window_rect = None /\ hovered_window_id = NoWindow
    /\ selected_window_id = NoWindow /\ selected_window_pixmap = NoPixmap
    /\ text_editing = FALSE /\ text_editing_pos = None /\ text_editing_content = << >>
    /\ cursor_visible = TRUE /\ cursor_timer = "None"
    /\ background_pixmap \in {Pixmap, NullPixmap}
    /\ window_offset = <<0, 0>>
    /\ geometry = ScreenGeometry
    /\ dpr \in { _sync_dpr_with_capture([dpr |-> d, geometry |-> ScreenGeometry],
                                         ScBuffer(sc)[1], ScBuffer(sc)[2]).dpr :
                    d \in ScreenDprs }
    /\ sync_pending = TRUE
    /\ toolbar_drawn = FALSE
    /\ saved = << >>
    /\ pressed = FALSE
    /\ gesture = << >>
    /\ overlay = 1 /\ hotkey_queue = 0 /\ start_timers = 0 /\ current_keys = {}

\* the window system resizes the overlay
ResizeEvent ==
    /\ visible
    /\ \E g \in ScGeometries(sc) :
            /\ g # geometry
            /\ Apply(resizeEvent(Self, g))
    /\ UNCHANGED <<pressed, gesture, sc>>
    /\ UNCHANGED SnapToolVars

\* the post-show timer fires
PostShowSync ==
    /\ sync_pending
    /\ Apply(_post_show_sync(Self))
    /\ UNCHANGED <<pressed, gesture, sc>>
    /\ UNCHANGED SnapToolVars

NextScale ==
    \/ MousePress
    \/ MouseMove
    \/ MouseRelease
    \/ ResizeEvent
    \/ PostShowSync

SpecScale == InitScale /\ [][NextScale]_vars

----------------------------------------------------------------------------
(* The application.  The global-hotkey listener runs on a thread of its own and
   emits hotkey_signal.triggered; the emission is queued for the main thread,
   whose slot _on_hotkey_triggered makes _start_screenshot due (a zero timer)
   and processes events; the tray action calls _start_screenshot directly.
   Every step below other than the listener's is a step of the main thread. *)

\* most triggers queued or due at one time
MaxTriggers == 2

\* most overlays one run of the application makes
MaxSessions == 2

\* the keys of the pynput hotkey Shift+Alt+B
HotkeyKeys == {"shift", "alt", "b"}

\* ScreenshotOverlay.__init__ with the scale d of the current screen: a new
\* object; what earlier sessions exported stays exported
ScreenshotOverlay(s, d) ==
    [ visible |-> FALSE, start_pos |-> None, end_pos |-> None,
      is_selecting |-> FALSE, edit_mode |-> FALSE,
      drawing_paths |-> << >>, current_path |-> << >>,
      is_drawing |-> FALSE, current_tool |-> "move",
      is_moving |-> FALSE, move_start_pos |-> None,
      current_color |-> "red", current_width |-> 4, current_font_size |-> 20,
      draw_start_pos |-> None,
      dragging_shape_index |-> NoIndex, hovered_shape_index |-> NoIndex,
      drag_start_pos |-> None,
      param_panel_open |-> FALSE,
      hovered_window_rect |-> None, hovered_window_id |-> NoWindow,
      selected_window_id |-> NoWindow, selected_window_pixmap |-> NoPixmap,
      text_editing |-> FALSE, text_editing_pos |-> None,
      text_editing_content |-> << >>,
      cursor_visible |-> TRUE, cursor_timer |-> "None",
      background_pixmap |-> Pixmap,
      dpr |-> _sync_dpr_with_capture([dpr |-> d, geometry |-> ScreenGeometry],
                                     ScBuffer(sc)[1], ScBuffer(sc)[2]).dpr,
      window_offset |-> <<0, 0>>, geometry |-> ScreenGeometry,
      sync_pending |-> FALSE,
      toolbar_drawn |-> FALSE, saved |-> s.saved ]

\* show() / showFullScreen(): the widget becomes visible and showEvent makes
\* _post_show_sync due
showEvent(s) == [s EXCEPT !.visible = TRUE, !.sync_pending = TRUE]

\* a plausible slip: the session started without the test for a live overlay
StartScreenshotUnguarded(s, o, d) ==
    [self |-> showEvent(ScreenshotOverlay(s, d)), overlay |-> o + 1]

\* SnapTool._start_screenshot: s is the overlay self.overlay refers to (when
\* it is not None), o is self.overlay, d the scale of the current screen
_start_screenshot(s, o, d) ==
    IF o # 0 /\ s.visible THEN [self |-> s, overlay |-> o]
    ELSE [self |-> showEvent(ScreenshotOverlay(s, d)), overlay |-> o + 1]

\* the application has started and no overlay has been made
InitTrigger ==
    /\ sc \in {"mac", "hidpi"}
    /\ visible = FALSE
    /\ start_pos = None /\ end_pos = None
    /\ is_selecting = FALSE /\ edit_mode = FALSE
    /\ drawing_paths = << >> /\ current_path = << >> /\ is_drawing = FALSE
    /\ current_tool = "move"
    /\ is_moving = FALSE /\ move_start_pos = None
    /\ current_color = "red" /\ current_width = 4 /\ current_font_size = 20
    /\ draw_start_pos = None
    /\ dragging_shape_index = NoIndex /\ hovered_shape_index = NoIndex
    /\ drag_start_pos = None
    /\ param_panel_open = FALSE
    /\ hovered_window_rect = None /\ hovered_window_id = NoWindow
    /\ selected_window_id = NoWindow /\ selected_window_pixmap = NoPixmap
    /\ text_editing = FALSE /\ text_editing_pos = None /\ text_editing_content = << >>
    /\ cursor_visible = TRUE /\ cursor_timer = "None"
    /\ background_pixmap = Pixmap
    /\ dpr = <<1, 1>> /\ window_offset = <<0, 0>>
    /\ geometry = ScreenGeometry /\ sync_pending = FALSE
    /\ toolbar_drawn = FALSE
    /\ saved = << >>
    /\ pressed = FALSE /\ gesture = << >>
    /\ overlay = 0 /\ hotkey_queue = 0 /\ start_timers = 0 /\ current_keys = {}

\* what a step of the listener thread or of the application leaves alone
OverlayUnchanged == Apply(Self) /\ UNCHANGED <<pressed, gesture, sc>>

\* listener thread, pynput: on_press(key)
OnPress(key) ==
    /\ ~ScDarwin(sc)
    /\ LET keys == current_keys \cup {key}
           hotkey == {"shift", "alt"} \subseteq keys /\ key = "b"
       IN  /\ hotkey => hotkey_queue + start_timers < MaxTriggers
           /\ hotkey_queue' = IF hotkey THEN hotkey_queue + 1 ELSE hotkey_queue
           /\ current_keys' = IF hotkey THEN {} ELSE keys
    /\ UNCHANGED <<overlay, start_timers>>
    /\ OverlayUnchanged

\* listener thread, pynput: on_release(key)
OnRelease(key) ==
    /\ ~ScDarwin(sc)
    /\ key \in current_keys
    /\ current_keys' = current_keys \ {key}
    /\ UNCHANGED <<overlay, hotkey_queue, start_timers>>
    /\ OverlayUnchanged

\* listener thread, macOS: the event-tap callback for a key-down of Ctrl+A
TapCallback ==
    /\ ScDarwin(sc)
    /\ hotkey_queue + start_timers < MaxTriggers
    /\ hotkey_queue' = hotkey_queue + 1
    /\ UNCHANGED <<overlay, start_timers, current_keys>>
    /\ OverlayUnchanged

\* main thread: the queued emission reaches the slot _on_hotkey_triggered
OnHotkeyTriggered ==
    /\ hotkey_queue > 0
    /\ hotkey_queue' = hotkey_queue - 1
    /\ start_timers' = start_timers + 1
    /\ UNCHANGED <<overlay, current_keys>>
    /\ OverlayUnchanged

\* main thread: _start_screenshot called on a screen of scale d
StartScreenshotOn(d) ==
    LET r == _start_screenshot(Self, overlay, d)
    IN  /\ r.overlay <= MaxSessions
        /\ Apply(r.self)
        /\ overlay' = r.overlay
        /\ UNCHANGED <<pressed, gesture, sc, hotkey_queue, current_keys>>

\* main thread: the zero timer of _on_hotkey_triggered fires
StartTimer ==
    /\ start_timers > 0
    /\ start_timers' = start_timers - 1
    /\ \E d \in ScreenDprs : StartScreenshotOn(d)

\* main thread: the tray menu's screenshot action
TrayAction ==
    /\ UNCHANGED start_timers
    /\ \E d \in ScreenDprs : StartScreenshotOn(d)

NextTrigger ==
    \/ MousePress
    \/ MouseMove
    \/ MouseRelease
    \/ PostShowSync
    \/ \E key \in HotkeyKeys : OnPress(key)
    \/ \E key \in HotkeyKeys : OnRelease(key)
    \/ TapCallback
    \/ OnHotkeyTriggered
    \/ StartTimer
    \/ TrayAction

SpecTrigger == InitTrigger /\ [][NextTrigger]_vars

----------------------------------------------------------------------------

(* Properties *)

\* the pointer-up step of a gesture, and the position of its pointer-down
ReleaseStep == pressed /\ ~pressed'
PressPos == gesture[1]

\* C1: for every pointer-down at s and pointer-up at e in Selecting, the
\* selection rectangle read back on the release is (min(sx,ex), min(sy,ey),
\* |ex-sx|, |ey-sy|), and if that width > 5 and height > 5 the session enters
\* Editing with exactly that rectangle.
C1_SelectionReadBack ==
    [][ (is_selecting /\ ReleaseStep) =>
            LET s == PressPos
                e == Pointer
                w == Abs(e[1] - s[1])
                h == Abs(e[2] - s[2])
                expected == QRectXYWH(Min(s[1], e[1]), Min(s[2], e[2]), w, h)
                read == _get_selection_rect([start_pos |-> start_pos, end_pos |-> e])
            IN  /\ read = expected
                /\ (w > 5 /\ h > 5) =>
                        /\ visible' /\ edit_mode' /\ ~is_selecting'
                        /\ _get_selection_rect([start_pos |-> start_pos',
                                                end_pos |-> end_pos']) = expected
      ]_vars

IsPoint(p) == p \in Int \X Int

WellFormed(sh) ==
    CASE sh.type = "pen" -> Len(sh.data) >= 2 /\ \A k \in 1..Len(sh.data) : IsPoint(sh.data[k])
      [] sh.type \in {"rect", "circle", "line", "arrow"} ->
            Len(sh.data) = 2 /\ IsPoint(sh.data[1]) /\ IsPoint(sh.data[2])
      [] sh.type = "text" ->
            Len(sh.data) = 2 /\ IsPoint(sh.data[1]) /\ Len(sh.data[2]) > 0
      [] OTHER -> FALSE

\* C2: in every reachable state every stored shape is well-formed: a Freehand
\* path has at least 2 points, a Rectangle/Ellipse/Line/Arrow exactly its two
\* endpoints, a Text shape an anchor and a non-empty content.
C2_ShapesWellFormed ==
    \A i \in 1..Len(drawing_paths) : WellFormed(drawing_paths[i])

\* the Shape Model is full and holds a Text shape, and a text entry has ended
C2_Witness ==
    /\ Len(drawing_paths) = MaxShapes
    /\ \E i \in 1..Len(drawing_paths) : drawing_paths[i].type = "text"
    /\ ~text_editing /\ cursor_timer = "stopped"

ActiveModes ==
    {m \in {"Selecting", "MovingSelection", "Drawing", "DraggingShape", "TextEditing"} :
        \/ m = "Selecting" /\ is_selecting
        \/ m = "MovingSelection" /\ is_moving
        \/ m = "Drawing" /\ is_drawing
        \/ m = "DraggingShape" /\ dragging_shape_index # NoIndex
        \/ m = "TextEditing" /\ text_editing}

\* C3: with presses and releases alternating, at most one of Selecting,
\* MovingSelection, Drawing, DraggingShape and TextEditing is active, and
\* Selecting is never active together with Editing.
C3_ModesExclusive ==
    /\ Cardinality(ActiveModes) <= 1
    /\ ~(is_selecting /\ edit_mode)

\* a button is pressed on the toolbar while a text is being typed
C3_Witness ==
    /\ ActiveModes = {"TextEditing"}
    /\ pressed /\ gesture = << >> /\ text_editing_content # << >>

\* a pointer-down at p on the canvas (on no toolbar control) in Editing
CanvasPressStep(p) == visible /\ edit_mode /\ ~pressed /\ pressed' /\ gesture' = <<p>>

\* the selection rectangle of the current state
SelectionRect == _get_selection_rect([start_pos |-> start_pos, end_pos |-> end_pos])

\* the indices of the shapes of paths that pointInShape matches at p
HitsAt(paths, p) ==
    {i \in 1..Len(paths) :
        _point_in_shape(p, paths[i].type, paths[i].data, paths[i].size)}

\* the Shape Model once the text in progress, if any, has been committed
AfterTextCommit ==
    IF text_editing /\ text_editing_content # << >>
    THEN Append(drawing_paths,
                [type |-> "text", color |-> current_color, size |-> current_font_size,
                 data |-> <<text_editing_pos, text_editing_content>>])
    ELSE drawing_paths

\* C4: in Editing a pointer-down inside the selection that lands on a shape
\* (shapeAt returns i) starts DraggingShape on shape i and starts neither
\* Drawing, erasing nor MovingSelection; with the Text tool the shape check is
\* made after the text in progress has been committed, and then starts
\* DraggingShape on that shape.
C4_PressOnShapeDrags ==
    [][ \A p \in ScPts(sc) :
            (CanvasPressStep(p) /\ RectContains(SelectionRect, p)) =>
                LET paths == IF current_tool = "text" THEN AfterTextCommit
                             ELSE drawing_paths
                    i == _get_shape_at_pos(paths, p)
                IN  _get_shape_at_pos(drawing_paths, p) # NoIndex =>
                        /\ dragging_shape_index' = i
                        /\ ~is_drawing' /\ ~is_moving'
                        /\ drawing_paths' = paths
      ]_vars

\* C5: shapeAt(p) returns the greatest index whose shape pointInShape matches
\* (the last-drawn shape wins), and none iff no stored shape is hit.
C5_TopmostHit ==
    \A p \in ScPts(sc) :
        LET hits == HitsAt(drawing_paths, p)
            i == _get_shape_at_pos(drawing_paths, p)
        IN  /\ (i = NoIndex) <=> (hits = {})
            /\ hits # {} => i \in hits /\ \A j \in hits : j <= i

\* two stored shapes are hit at one position, and another position hits none
C5_Witness ==
    /\ \E p \in ScPts(sc) : Cardinality(HitsAt(drawing_paths, p)) >= 2
    /\ \E p \in ScPts(sc) : HitsAt(drawing_paths, p) = {}

\* paths is before with exactly one shape of the given kind and points appended
AppendsShape(before, paths, kind, points) ==
    /\ Len(paths) = Len(before) + 1
    /\ SubSeq(paths, 1, Len(before)) = before
    /\ paths[Len(paths)].type = kind
    /\ paths[Len(paths)].data = points

\* C6: a Pen stroke with pointer-down at p0 and moves p1..pn commits on
\* pointer-up exactly one Freehand shape with the points p0,p1,...,pn when
\* n >= 1, and nothing when n = 0; a Rectangle/Ellipse/Arrow/Line stroke commits
\* a shape with the endpoints (p0, latest pointer position).
C6_StrokeCommit ==
    [][ (is_drawing /\ ReleaseStep) =>
            IF current_tool = "pen" THEN
                IF Len(gesture) >= 2
                THEN AppendsShape(drawing_paths, drawing_paths', "pen", gesture)
                ELSE drawing_paths' = drawing_paths
            ELSE IF current_tool \in {"rect", "circle", "arrow", "line"} THEN
                AppendsShape(drawing_paths, drawing_paths', current_tool,
                             <<PressPos, Pointer>>)
            ELSE TRUE
      ]_vars

\* C7: every pointer-up that ends an Eraser stroke, a stroke of a single point
\* included, applies eraseIntersecting with the accumulated path and radius
\* 3 x stroke width, appends no shape and returns to Idle-in-Editing; the moves
\* of the stroke do not modify the Shape Model.
C7_EraserRelease ==
    [][ (is_drawing /\ current_tool = "eraser") =>
            /\ ReleaseStep =>
                    /\ drawing_paths' = _erase_paths(drawing_paths, current_width, gesture)
                    /\ ActiveModes' = {} /\ edit_mode' /\ visible'
            /\ (pressed /\ pressed') => drawing_paths' = drawing_paths
      ]_vars

\* p lies within distance r of the segment a-b: of an end point where the
\* foot of the perpendicular falls outside the segment, of the line otherwise
WithinOfSegment(p, a, b, r) ==
    LET ux == b[1] - a[1]
        uy == b[2] - a[2]
        vx == p[1] - a[1]
        vy == p[2] - a[2]
        along == ux * vx + uy * vy
        cross == ux * vy - uy * vx
        len2 == ux * ux + uy * uy
    IN  IF len2 = 0 \/ along <= 0 THEN vx * vx + vy * vy <= r * r
        ELSE IF along >= len2 THEN SqDist(p, b) <= r * r
        ELSE cross * cross <= r * r * len2

\* p lies within r of an edge of the rectangle with the corners c1 and c2
WithinOfRectEdge(p, c1, c2, r) ==
    \/ WithinOfSegment(p, <<c1[1], c1[2]>>, <<c2[1], c1[2]>>, r)
    \/ WithinOfSegment(p, <<c2[1], c1[2]>>, <<c2[1], c2[2]>>, r)
    \/ WithinOfSegment(p, <<c2[1], c2[2]>>, <<c1[1], c2[2]>>, r)
    \/ WithinOfSegment(p, <<c1[1], c2[2]>>, <<c1[1], c1[2]>>, r)

\* p lies within r of the shape.  The outline of an ellipse has no integer
\* distance formula: p counts as near when it lies within r + 1 of the bounding
\* box, which holds of every point within r of the outline.
NearShape(p, sh, r) ==
    CASE sh.type = "pen" ->
            \E k \in 1..(Len(sh.data) - 1) : WithinOfSegment(p, sh.data[k], sh.data[k + 1], r)
      [] sh.type = "rect" -> WithinOfRectEdge(p, sh.data[1], sh.data[2], r)
      [] sh.type \in {"line", "arrow"} -> WithinOfSegment(p, sh.data[1], sh.data[2], r)
      [] sh.type = "text" -> SqDist(p, sh.data[1]) <= (r + 30) * (r + 30)
      [] sh.type = "circle" ->
            /\ p[1] >= Min(sh.data[1][1], sh.data[2][1]) - (r + 1)
            /\ p[1] <= Max(sh.data[1][1], sh.data[2][1]) + (r + 1)
            /\ p[2] >= Min(sh.data[1][2], sh.data[2][2]) - (r + 1)
            /\ p[2] <= Max(sh.data[1][2], sh.data[2][2]) + (r + 1)

\* some point of path is near some stored shape
PathNearModel(path, r) ==
    \E k \in 1..Len(path) : \E i \in 1..Len(drawing_paths) :
        NearShape(path[k], drawing_paths[i], r)

\* eraser paths tried on every reachable Shape Model: the single points, and
\* the stroke in progress
ErasePoints == ScPts(sc)
ErasePaths ==
    {<<p>> : p \in ErasePoints} \cup (IF current_path = << >> THEN {} ELSE {current_path})

ExampleRect == <<(<<20, 20>>), (<<60, 50>>)>>

\* C9: eraseIntersecting removes a Rectangle whenever some point of the eraser
\* path is within radius of one of its four edges, also for a path of a single
\* point: Rectangle (20,20)-(60,50), path (40,35), radius >= 15.
C9_RectErasedNearEdge ==
    \A i \in {n \in 1..Len(drawing_paths) : drawing_paths[n].type = "rect"} :
        \A w \in WidthOptions : \A path \in ErasePaths :
            (\E k \in 1..Len(path) :
                WithinOfRectEdge(path[k], drawing_paths[i].data[1],
                                 drawing_paths[i].data[2], 3 * w))
                => LET after == _erase_paths(drawing_paths, w, path)
                   IN  \A j \in 1..Len(after) : after[j] # drawing_paths[i]

\* the Rectangle of the example is stored, the radius is >= 15 and an eraser
\* stroke has a point within the radius of an edge; (40,35) is a path tried
C9_Witness ==
    /\ \E i \in 1..Len(drawing_paths) :
            /\ drawing_paths[i].type = "rect" /\ drawing_paths[i].data = ExampleRect
            /\ \E k \in 1..Len(current_path) :
                    WithinOfRectEdge(current_path[k], drawing_paths[i].data[1],
                                     drawing_paths[i].data[2], 3 * current_width)
    /\ is_drawing /\ current_tool = "eraser" /\ 3 * current_width >= 15
    /\ <<(<<40, 35>>)>> \in ErasePaths

\* C10: in TextEditing started by a click at anchor a, Enter after typing a
\* non-empty s appends exactly one Text shape {a, s} to the end of the Shape
\* Model and leaves TextEditing; Escape leaves TextEditing with the Shape Model
\* unchanged and the session alive; backspace removes only the last character.
C10_TextKeys ==
    [][ /\ \A p \in ScPts(sc) :
                (CanvasPressStep(p) /\ ~text_editing /\ text_editing') =>
                    text_editing_pos' = p /\ text_editing_content' = << >>
        /\ text_editing =>
            /\ text_editing' => text_editing_pos' = text_editing_pos
            /\ \A c \in {"h", "i"} :
                    KeyPressOf(c) =>
                        /\ text_editing_content' = Append(text_editing_content, c)
                        /\ text_editing' /\ drawing_paths' = drawing_paths
            /\ (KeyPressOf("Return") /\ text_editing_content # << >>) =>
                    /\ AppendsShape(drawing_paths, drawing_paths', "text",
                                    <<text_editing_pos, text_editing_content>>)
                    /\ ~text_editing'
            /\ KeyPressOf("Escape") =>
                    /\ drawing_paths' = drawing_paths
                    /\ ~text_editing' /\ visible' /\ edit_mode'
            /\ KeyPressOf("Backspace") =>
                    /\ text_editing_content' =
                            IF text_editing_content = << >> THEN << >>
                            ELSE SubSeq(text_editing_content, 1, Len(text_editing_content) - 1)
                    /\ text_editing' /\ drawing_paths' = drawing_paths
      ]_vars

\* the Text shape {anchor (30,30), content "hi"} was committed last
C10_Witness ==
    /\ drawing_paths # << >>
    /\ drawing_paths[Len(drawing_paths)].type = "text"
    /\ drawing_paths[Len(drawing_paths)].data = <<(<<30, 30>>), (<<"h", "i">>)>>
    /\ ~text_editing /\ cursor_timer = "stopped"

\* C11: while TextEditing holds a non-empty string, Enter, a tool button and a
\* pointer-down anywhere else in the overlay (inside or outside the selection,
\* on undo, confirm, cancel or a parameter-panel control) each end TextEditing
\* and commit exactly one Text shape {anchor, string}; with an empty string
\* nothing is committed.  (What a press on undo leaves of the committed shape
\* is not constrained here.)
C11_TextCommitOnAction ==
    [][ text_editing =>
            LET Commits ==
                    /\ ~text_editing'
                    /\ IF text_editing_content # << >>
                       THEN AppendsShape(drawing_paths, drawing_paths', "text",
                                         <<text_editing_pos, text_editing_content>>)
                       ELSE drawing_paths' = drawing_paths
            IN  /\ KeyPressOf("Return") => Commits
                /\ \A ev \in PressEvents : \A r \in CaptureOutcomes :
                        MousePressOf(ev, r) =>
                            IF ev.ctl = "undo" THEN ~text_editing' ELSE Commits
      ]_vars

\* C12: with the Text tool, a pointer-down at q inside the selection and on no
\* shape while a text entry is in progress commits that entry (if its content
\* is non-empty) and then starts a new one: after the event text entry is
\* active with anchor q and empty content.
C12_PressRestartsText ==
    [][ \A q \in ScPts(sc) :
            ( /\ CanvasPressStep(q) /\ RectContains(SelectionRect, q)
              /\ current_tool = "text" /\ text_editing
              /\ _get_shape_at_pos(AfterTextCommit, q) = NoIndex ) =>
                /\ drawing_paths' = AfterTextCommit
                /\ text_editing' /\ text_editing_pos' = q /\ text_editing_content' = << >>
      ]_vars

\* C13: from any state of a live session the cancel button, and Escape
\* pressed while TextEditing is not active, end the session with no export;
\* Escape pressed while TextEditing is active does not end the session.
C13_CancelEndsSession ==
    [][ /\ (KeyPressOf("Escape") /\ ~text_editing) => (~visible' /\ saved' = saved)
        /\ (KeyPressOf("Escape") /\ text_editing) => (visible' /\ saved' = saved)
        /\ \A r \in CaptureOutcomes :
                MousePressOf(OnControl("cancel"), r) => (~visible' /\ saved' = saved)
      ]_vars

\* the session was ended in the middle of a stroke, with nothing exported
C13_Witness == ~visible /\ is_drawing /\ current_path # << >> /\ saved = << >>

\* the rectangle spanned by the two corners of the selection
SpannedRect ==
    QRectXYWH(Min(start_pos[1], end_pos[1]), Min(start_pos[2], end_pos[2]),
              Abs(end_pos[1] - start_pos[1]), Abs(end_pos[2] - start_pos[2]))

\* the confirm action: a pointer-down on the confirm button, or a double click
\* on the canvas
ConfirmStep ==
    \E r \in CaptureOutcomes :
        \/ MousePressOf(OnControl("confirm"), r)
        \/ \E p \in ScPts(sc) : MouseDoubleClickOf(AtPoint(p), r)

\* C14: from every Editing sub-mode the confirm action runs the Capture & Crop
\* Pipeline on the current selection rectangle and Shape Model (one export of
\* that rectangle with those shapes) and then ends the session.
C14_ConfirmExports ==
    [][ (edit_mode /\ ConfirmStep) =>
            /\ ~visible'
            /\ Len(saved') = Len(saved) + 1
            /\ saved'[Len(saved')].rect = SpannedRect
            /\ saved'[Len(saved')].shapes = drawing_paths
      ]_vars

\* C15: in every reachable state the cursor-blink timer is running if and only
\* if the session is live and in TextEditing; in particular it is not running
\* once the session has ended by confirm, cancel or double click, even when
\* that happens during TextEditing.
C15_TimerOnlyInTextEditing ==
    (cursor_timer = "running") <=> (visible /\ text_editing)

\* C16: undo removes exactly the last element of the Shape Model when it is
\* non-empty (the other shapes and their order unchanged) and is a no-op when it
\* is empty; no operation restores a removed shape: the Shape Model only grows
\* by one shape at its end, made of the stroke or of the text in progress.
C16_UndoPopsLast ==
    [][ /\ \A r \in CaptureOutcomes :
                MousePressOf(OnControl("undo"), r) =>
                    /\ drawing_paths # << >> =>
                            /\ Len(drawing_paths') = Len(drawing_paths) - 1
                            /\ \A i \in 1..Len(drawing_paths') :
                                    drawing_paths'[i] = drawing_paths[i]
                    /\ drawing_paths = << >> => drawing_paths' = << >>
        /\ Len(drawing_paths') > Len(drawing_paths) =>
                \/ /\ is_drawing /\ ReleaseStep /\ current_tool = "pen"
                   /\ AppendsShape(drawing_paths, drawing_paths', "pen", gesture)
                \/ /\ is_drawing /\ ReleaseStep /\ current_tool # "pen"
                   /\ AppendsShape(drawing_paths, drawing_paths', current_tool,
                                   <<PressPos, Pointer>>)
                \/ /\ text_editing
                   /\ AppendsShape(drawing_paths, drawing_paths', "text",
                                   <<text_editing_pos, text_editing_content>>)
      ]_vars

\* undo was pressed while the pointer rested on the last-drawn shape: the
\* index of the hovered shape is left beyond the end of the Shape Model
C16_Witness ==
    /\ visible /\ pressed /\ gesture = << >>
    /\ hovered_shape_index > Len(drawing_paths)

\* C17: on pointer-up in Selecting when the dragged rectangle does not have
\* both width > 5 and height > 5: if a detected window is hovered, the session
\* enters Editing with the selection rectangle equal to that window's rectangle
\* (same origin, width and height) and is window-bound; if no window is
\* hovered, the session terminates without export.
C17_ClickAdoptsWindow ==
    [][ ( /\ is_selecting /\ ReleaseStep
          /\ ~( Abs(Pointer[1] - PressPos[1]) > 5 /\ Abs(Pointer[2] - PressPos[2]) > 5 ) ) =>
            IF hovered_window_rect # None
            THEN /\ visible' /\ edit_mode' /\ ~is_selecting'
                 /\ SelectionRect' = hovered_window_rect
                 /\ selected_window_id' = hovered_window_id
                 /\ selected_window_id' # NoWindow
            ELSE ~visible' /\ saved' = saved
      ]_vars

\* the export a confirm step has made, if it made one
Exported == Len(saved') = Len(saved) + 1
LastExport == saved'[Len(saved')]

\* the confirm action, with what _capture_single_window returns during it
ConfirmStepWith(r) ==
    \/ MousePressOf(OnControl("confirm"), r)
    \/ \E p \in ScPts(sc) : MouseDoubleClickOf(AtPoint(p), r)

\* the crop of the full-screen buffer at the selection rectangle, with the
\* shapes composited
IsCropExport(e) ==
    /\ e.src = "crop" /\ e.image = background_pixmap
    /\ e.rect = SelectionRect /\ e.shapes = drawing_paths

\* C18 as stated: when confirm happens in a window-bound session the exported
\* image is produced from the window capture of the selected window, not from
\* a crop of the full-screen buffer; in a session that is not window-bound it
\* is the crop of the full-screen buffer at the selection rectangle.
C18_WindowBoundExport ==
    [][ \A r \in CaptureOutcomes :
            (ConfirmStepWith(r) /\ Exported) =>
                IF selected_window_id # NoWindow
                THEN LastExport.src = "window" /\ LastExport.shapes = drawing_paths
                ELSE IsCropExport(LastExport)
      ]_vars

\* C18 amended: in a window-bound session the exported image is produced from
\* the window capture (the one stored at adoption, else one retaken at
\* confirm) with the shapes composited on it, and from the crop of the
\* full-screen buffer when neither capture is available; in a session that is
\* not window-bound it is the crop of the full-screen buffer.
C18_WindowBoundExportOrFallback ==
    [][ \A r \in CaptureOutcomes :
            (ConfirmStepWith(r) /\ Exported) =>
                IF selected_window_id # NoWindow /\ selected_window_pixmap # NoPixmap
                THEN /\ LastExport.src = "window"
                     /\ LastExport.image = selected_window_pixmap
                     /\ LastExport.shapes = drawing_paths
                ELSE IF selected_window_id # NoWindow /\ r # NoPixmap
                THEN /\ LastExport.src = "window" /\ LastExport.image = r
                     /\ LastExport.shapes = drawing_paths
                ELSE IsCropExport(LastExport)
      ]_vars

\* a window-bound session whose capture at adoption had failed was confirmed
\* and exported the window capture retaken at confirm
C18_Witness ==
    /\ ~visible /\ selected_window_id # NoWindow /\ selected_window_pixmap = NoPixmap
    /\ saved # << >> /\ saved[Len(saved)].src = "window"

\* C19: capture failure is never fatal at confirm.  In a window-bound session
\* whose window capture is unavailable the export falls back to a crop of the
\* full-screen buffer; if the full-screen buffer is unavailable too (or, in a
\* session that is not window-bound, the buffer is unavailable) no image is
\* returned and no export callback fires; the session terminates in each case.
C19_CaptureFailureNotFatal ==
    [][ \A r \in CaptureOutcomes :
            (edit_mode /\ ConfirmStepWith(r)) =>
                LET window_bound == selected_window_id # NoWindow
                    no_window_capture == selected_window_pixmap = NoPixmap /\ r = NoPixmap
                    no_buffer == background_pixmap # Pixmap
                IN  /\ ~visible'
                    /\ (window_bound /\ no_window_capture /\ ~no_buffer /\ Exported) =>
                            IsCropExport(LastExport)
                    /\ (no_buffer /\ (~window_bound \/ no_window_capture)) =>
                            saved' = saved
      ]_vars

\* point q is point p displaced by d
Displaced(p, q, d) == q[1] = p[1] + d[1] /\ q[2] = p[2] + d[2]

\* shape b is shape a with every point (the anchor, for a Text) displaced by d
\* and nothing else changed
Translated(a, b, d) ==
    /\ b.type = a.type /\ b.color = a.color /\ b.size = a.size
    /\ Len(b.data) = Len(a.data)
    /\ IF a.type = "text"
       THEN Displaced(a.data[1], b.data[1], d) /\ b.data[2] = a.data[2]
       ELSE \A k \in 1..Len(a.data) : Displaced(a.data[k], b.data[k], d)

\* C20: during DraggingShape started by a pointer-down at p0, each move to p
\* displaces every point (the anchor) of the dragged shape by p minus the
\* previous pointer position, so that after the moves p1..pn the shape lies at
\* its coordinates of the drag start plus (pn - p0); its kind, color, width,
\* point count, text content and index, and every other shape, are unchanged.
C20_DragTranslates ==
    [][ /\ \A p \in ScPts(sc) :
                (CanvasPressStep(p) /\ dragging_shape_index' # NoIndex) =>
                    /\ drawing_paths' = drawing_paths
                    /\ drag_start_pos' = p
        /\ (dragging_shape_index # NoIndex /\ pressed /\ pressed') =>
                LET i == dragging_shape_index
                    d == <<Pointer'[1] - Pointer[1], Pointer'[2] - Pointer[2]>>
                IN  /\ dragging_shape_index' = i
                    /\ drag_start_pos = Pointer /\ drag_start_pos' = Pointer'
                    /\ Len(drawing_paths') = Len(drawing_paths)
                    /\ \A j \in 1..Len(drawing_paths) :
                            IF j = i THEN Translated(drawing_paths[j], drawing_paths'[j], d)
                            ELSE drawing_paths'[j] = drawing_paths[j]
      ]_vars

\* a Freehand shape is being dragged, two moves have been made and it lies
\* away from where it was stored, beside another shape
C20_Witness ==
    /\ dragging_shape_index # NoIndex /\ Len(gesture) = 3 /\ gesture[3] # gesture[1]
    /\ Len(drawing_paths) = 2
    /\ drawing_paths[dragging_shape_index].type = "pen"
    /\ drawing_paths[dragging_shape_index] \notin EraseCatalog

\* the kinds whose data has the layout of the data of sh
KindsLike(sh) ==
    IF sh.type \in {"rect", "circle", "arrow", "line"}
    THEN {"rect", "circle", "arrow", "line"} ELSE {sh.type}

\* pointer positions a drag goes between: every pair gives a delta and its inverse
DragPoints == ScPts(sc) \cup {<<0, 0>>, <<MaxCoord, MaxCoord>>}

\* C21: for every shape kind (Freehand, Rectangle, Ellipse, Line, Arrow, Text)
\* and every integer delta, translate by the delta (a move from a to b) followed
\* by translate by the inverse delta (a move back to a) returns the shape to
\* exactly its original coordinates.
C21_TranslateRoundTrip ==
    \A i \in 1..Len(drawing_paths) : \A k \in KindsLike(drawing_paths[i]) :
        \A a \in DragPoints : \A b \in DragPoints :
            LET s0 == [Self EXCEPT !.drawing_paths[i].type = k, !.drag_start_pos = a]
                s1 == _move_shape(s0, i, b)
                s2 == _move_shape(s1, i, a)
            IN  /\ Translated(s0.drawing_paths[i], s1.drawing_paths[i],
                              <<b[1] - a[1], b[2] - a[2]>>)
                /\ s2.drawing_paths = s0.drawing_paths

\* a stored shape was dragged away and back to where the pointer went down, and
\* lies where it was stored
C21_Witness ==
    /\ dragging_shape_index # NoIndex /\ drag_start_pos # None
    /\ Len(gesture) = 3 /\ gesture[2] # gesture[1] /\ gesture[3] = gesture[1]
    /\ drawing_paths[dragging_shape_index] \in EraseCatalog

\* the tools a stroke is made with
StrokeTools == {"pen", "rect", "circle", "arrow", "line", "eraser"}

\* C22: in Editing with no sub-mode active, a pointer-down on no toolbar
\* control starts MovingSelection if and only if the current tool is Move, the
\* position is inside the selection rectangle and shapeAt(position) is none; it
\* starts Drawing if and only if the tool is one of Pen, Rectangle, Ellipse,
\* Arrow, Line, Eraser under the same two conditions on the position.
C22_PressStartsMode ==
    [][ \A p \in ScPts(sc) :
            (CanvasPressStep(p) /\ ActiveModes = {}) =>
                LET inside == RectContains(SpannedRect, p)
                    free == _get_shape_at_pos(drawing_paths, p) = NoIndex
                IN  /\ is_moving' <=> (current_tool = "move" /\ inside /\ free)
                    /\ is_drawing' <=> (current_tool \in StrokeTools /\ inside /\ free)
      ]_vars

\* C23: choosing a color, stroke width or font size in the parameter panel
\* changes only that one session parameter: the current tool, the active
\* sub-mode (an in-progress TextEditing string and anchor included), the
\* selection rectangle and every stored shape, with its own color and
\* strokeWidth/fontSize, are unchanged.
C23_ParamChoiceFrame ==
    [][ \A it \in ScItems(sc) : \A r \in CaptureOutcomes :
            (OnItem(it) \in PressEvents /\ MousePressOf(OnItem(it), r)) =>
                /\ current_color' = IF it.type = "color" THEN it.color ELSE current_color
                /\ current_width' = IF it.type = "width" THEN it.num ELSE current_width
                /\ current_font_size' =
                        IF it.type = "font_size" THEN it.num ELSE current_font_size
                /\ current_tool' = current_tool /\ param_panel_open' = param_panel_open
                /\ visible' /\ edit_mode' /\ ActiveModes' = ActiveModes
                /\ text_editing_pos' = text_editing_pos
                /\ text_editing_content' = text_editing_content
                /\ cursor_timer' = cursor_timer
                /\ start_pos' = start_pos /\ end_pos' = end_pos
                /\ drawing_paths' = drawing_paths
      ]_vars

\* a color and a stroke width other than those of the stored shapes were
\* chosen in the panel of the Rectangle tool, after a Rectangle was drawn
C23_Witness ==
    /\ pressed /\ gesture = << >> /\ param_panel_open /\ current_tool = "rect"
    /\ current_color = "blue" /\ current_width = 6 /\ current_font_size = 20
    /\ Len(drawing_paths) = 2
    /\ \A i \in 1..Len(drawing_paths) : drawing_paths[i].color = "red"
    /\ drawing_paths[1].size = 20 /\ drawing_paths[2].size = 4

\* a pointer-down on the toolbar button of the tool that is selected
SameToolStep(t) ==
    /\ toolbar_drawn /\ current_tool = t
    /\ \E r \in CaptureOutcomes : MousePressOf(OnTool(t), r)

\* C24 as stated: clicking the toolbar button of the already-selected tool,
\* when that tool is one of Rectangle, Ellipse, Pen, Arrow, Line, Text, toggles
\* the parameter panel's open/closed state and leaves the current tool and the
\* Shape Model unchanged, in every Editing sub-mode including TextEditing with
\* a non-empty in-progress string.
C24_SameToolToggles ==
    [][ \A t \in ScTools(sc) \cap tools_with_params :
            SameToolStep(t) =>
                /\ param_panel_open' = ~param_panel_open
                /\ current_tool' = t
                /\ drawing_paths' = drawing_paths
      ]_vars

\* C24 amended: clicking the toolbar button of the already-selected tool, when
\* that tool is in the parameterized set, toggles the parameter panel's
\* open/closed state and leaves the current tool unchanged; the Shape Model is
\* unchanged unless TextEditing holds a non-empty string, which is committed as
\* one Text shape at its end; TextEditing ends in either case.
C24_SameToolTogglesAndCommits ==
    [][ \A t \in ScTools(sc) \cap tools_with_params :
            SameToolStep(t) =>
                /\ param_panel_open' = ~param_panel_open
                /\ current_tool' = t
                /\ drawing_paths' = AfterTextCommit
                /\ ~text_editing'
                /\ visible' /\ edit_mode'
      ]_vars

\* the Text button was clicked with the Text tool selected: the panel, closed
\* since the click that started the text entry, is open, the entry has ended
\* and the string typed at (30,30) is the last shape
C24_Witness ==
    /\ current_tool = "text" /\ param_panel_open /\ pressed /\ gesture = << >>
    /\ ~text_editing /\ cursor_timer = "stopped"
    /\ Len(drawing_paths) = 2
    /\ drawing_paths[2].type = "text" /\ drawing_paths[2].data = <<(<<30, 30>>), (<<"h">>)>>

\* a Rectangle or Ellipse of zero area: both corners equal, or zero width or
\* zero height
ZeroArea(sh) ==
    /\ sh.type \in {"rect", "circle"}
    /\ sh.data[1][1] = sh.data[2][1] \/ sh.data[1][2] = sh.data[2][2]

\* C25: a zero-area Rectangle or Ellipse is never matched: pointInShape returns
\* false for every point, shapeAt never returns its index, and eraseIntersecting
\* never removes it, for every eraser path and radius.
C25_ZeroAreaUnmatched ==
    \A i \in 1..Len(drawing_paths) :
        ZeroArea(drawing_paths[i]) =>
            /\ \A p \in ScPts(sc) :
                    /\ ~_point_in_shape(p, drawing_paths[i].type, drawing_paths[i].data,
                                        drawing_paths[i].size)
                    /\ _get_shape_at_pos(drawing_paths, p) # i
            /\ \A w \in WidthOptions : \A path \in ErasePaths :
                    LET after == _erase_paths(drawing_paths, w, path)
                    IN  \E j \in 1..Len(after) : after[j] = drawing_paths[i]

\* p lies at a distance below r of the segment a-b: of a when a = b or the foot
\* of the perpendicular falls before a, of b when it falls after b, of the line
\* otherwise
BelowOfSegment(p, a, b, r) ==
    LET ux == b[1] - a[1]
        uy == b[2] - a[2]
        vx == p[1] - a[1]
        vy == p[2] - a[2]
        along == ux * vx + uy * vy
        cross == ux * vy - uy * vx
        len2 == ux * ux + uy * uy
    IN  IF len2 = 0 \/ along <= 0 THEN vx * vx + vy * vy < r * r
        ELSE IF along >= len2 THEN SqDist(p, b) < r * r
        ELSE cross * cross < r * r * len2

\* the segments of a Line, an Arrow or a Freehand path
SegmentsOf(sh) == {<<sh.data[k], sh.data[k + 1]>> : k \in 1..(Len(sh.data) - 1)}

\* the stored shapes made of segments
SegmentShapes ==
    {i \in 1..Len(drawing_paths) : drawing_paths[i].type \in {"line", "arrow", "pen"}}

\* positions the hit test is tried at: the pointer positions, and the positions
\* 11, 12 and 13 left, right, above and below of each end of a segment
ProbeOffsets ==
    {<<d, 0>> : d \in {-13, -12, -11, 11, 12, 13}}
    \cup {<<0, d>> : d \in {-13, -12, -11, 11, 12, 13}}

Probes(sh) ==
    ScPts(sc) \cup {<<sh.data[k][1] + o[1], sh.data[k][2] + o[2]>> :
                        k \in 1..Len(sh.data), o \in ProbeOffsets}

\* C26 as stated: for a Line, an Arrow and each segment of a Freehand path,
\* pointInShape(p) is true exactly when the point-to-segment distance from p is
\* <= 12, so that a point at distance exactly 12 is a hit; for a degenerate
\* segment the distance is the Euclidean distance from p to a.
C26_SegmentHitWithin ==
    \A i \in SegmentShapes :
        LET sh == drawing_paths[i]
        IN  \A p \in Probes(sh) :
                _point_in_shape(p, sh.type, sh.data, sh.size)
                    <=> \E seg \in SegmentsOf(sh) : WithinOfSegment(p, seg[1], seg[2], 12)

\* C26 amended: pointInShape(p) is true exactly when the point-to-segment
\* distance from p to the Line, the Arrow or some segment of the Freehand path
\* is < 12, so that a point at distance exactly 12 is a miss; for a degenerate
\* segment the distance is the Euclidean distance from p to a.
C26_SegmentHitBelow ==
    \A i \in SegmentShapes :
        LET sh == drawing_paths[i]
        IN  \A p \in Probes(sh) :
                _point_in_shape(p, sh.type, sh.data, sh.size)
                    <=> \E seg \in SegmentsOf(sh) : BelowOfSegment(p, seg[1], seg[2], 12)

\* a degenerate Line is stored and was hit by the press that now drags it; of
\* the positions tried some lie at distance exactly 12 of it and are missed
C26_Witness ==
    /\ dragging_shape_index \in SegmentShapes /\ pressed
    /\ LET sh == drawing_paths[dragging_shape_index]
       IN  /\ sh.data[1] = sh.data[2]
           /\ \E p \in Probes(sh) :
                /\ SqDist(p, sh.data[1]) = 12 * 12
                /\ ~_point_in_shape(p, sh.type, sh.data, sh.size)

\* k is n / d (d > 0) with the fraction dropped: trunc(n / d)
IsTrunc(k, n, d) ==
    IF n >= 0 THEN k * d <= n /\ n < (k + 1) * d
    ELSE (k - 1) * d < n /\ n <= k * d

\* the offset of the transform: the window offset where the platform has one
ActiveOffset == IF ScDarwin(sc) THEN window_offset ELSE <<0, 0>>

\* the scale is the number k
ScaleIs(k) == dpr[1] = k * dpr[2]

\* logical rectangles the transform is tried on: the one of the example, one
\* with odd sides, one left of and above the origin, and the selection
PixelProbes ==
    { QRectXYWH(0, 0, 100, 100), QRectXYWH(15, 7, 33, 21), QRectXYWH(-5, -3, 11, 9) }
    \cup (IF start_pos # None /\ end_pos # None THEN {SpannedRect} ELSE {})

\* C27: toPixel maps a logical rectangle (x, y, w, h) to
\* (trunc((x+offset.x)*scale), trunc((y+offset.y)*scale), trunc(w*scale),
\* trunc(h*scale)); with zero offset and scale 2.0, (0,0,100,100) maps to
\* (0,0,200,200).
C27_ToPixel ==
    /\ \A rect \in PixelProbes :
            LET px == _rect_to_screen_pixels(Self, rect)
            IN  /\ IsTrunc(RectX(px), (RectX(rect) + ActiveOffset[1]) * dpr[1], dpr[2])
                /\ IsTrunc(RectY(px), (RectY(rect) + ActiveOffset[2]) * dpr[1], dpr[2])
                /\ IsTrunc(RectWidth(px), RectWidth(rect) * dpr[1], dpr[2])
                /\ IsTrunc(RectHeight(px), RectHeight(rect) * dpr[1], dpr[2])
    /\ (ScaleIs(2) /\ ActiveOffset = <<0, 0>>) =>
            _rect_to_screen_pixels(Self, QRectXYWH(0, 0, 100, 100)) = QRectXYWH(0, 0, 200, 200)

\* a crop was exported whose source rectangle lost a fraction of a pixel, at
\* a scale that is not a whole number
C27_Witness ==
    /\ ~visible /\ ~sync_pending /\ saved # << >>
    /\ saved[Len(saved)].src = "crop"
    /\ saved[Len(saved)].src_rect = _rect_to_screen_pixels(Self, saved[Len(saved)].rect)
    /\ RectX(saved[Len(saved)].src_rect) * dpr[2]
            < (RectX(saved[Len(saved)].rect) + ActiveOffset[1]) * dpr[1]

\* buffer dimensions calibrate is tried with
PixelSizes == {0, 225, 300, 301, 400}

\* the measured scale (pixelW/logicalW + pixelH/logicalH)/2, as a fraction
Measured(pixelW, pixelH) ==
    Fraction(pixelW * RectHeight(geometry) + pixelH * RectWidth(geometry),
             2 * RectWidth(geometry) * RectHeight(geometry))

\* equality of fractions in lowest terms
FracEq(a, b) == a = b

\* C28 as stated: calibrate(pixelW, pixelH) leaves the scale unchanged when
\* logicalW <= 0 or logicalH <= 0, and otherwise replaces it by
\* (pixelW/logicalW + pixelH/logicalH)/2 only when that value differs from the
\* current scale by more than 0.01; hence after every calibrate with positive
\* logical size the scale is within 0.01 of the measured value, and repeating
\* calibrate with the same buffer dimensions never changes the scale again.
C28_Calibrate ==
    \A pw \in PixelSizes : \A ph \in PixelSizes :
        LET s1 == _sync_dpr_with_capture(Self, pw, ph)
            m == Measured(pw, ph)
        IN  IF RectWidth(geometry) <= 0 \/ RectHeight(geometry) <= 0
            THEN s1.dpr = dpr
            ELSE /\ s1.dpr # dpr => FracEq(s1.dpr, m) /\ FracDiffAbove(m, dpr, 1, 100)
                 /\ ~FracDiffAbove(s1.dpr, m, 1, 100)
                 /\ _sync_dpr_with_capture(s1, pw, ph).dpr = s1.dpr

\* C28 amended: calibrate leaves the scale unchanged when logicalW <= 0 or
\* logicalH <= 0 or pixelW <= 0 or pixelH <= 0, and otherwise replaces it by
\* the measured value exactly when that differs from the current scale by more
\* than 0.01; hence after every calibrate with positive logical and pixel sizes
\* the scale is within 0.01 of the measured value, and repeating calibrate with
\* the same buffer dimensions and logical size never changes the scale again.
\* Nothing but the scale is changed.
C28_CalibratePositive ==
    \A pw \in PixelSizes : \A ph \in PixelSizes :
        LET s1 == _sync_dpr_with_capture(Self, pw, ph)
            m == Measured(pw, ph)
        IN  /\ s1 = [Self EXCEPT !.dpr = s1.dpr]
            /\ IF \/ RectWidth(geometry) <= 0 \/ RectHeight(geometry) <= 0
                  \/ pw <= 0 \/ ph <= 0
               THEN s1.dpr = dpr
               ELSE /\ IF FracDiffAbove(m, dpr, 1, 100)
                       THEN FracEq(s1.dpr, m) ELSE s1.dpr = dpr
                    /\ ~FracDiffAbove(s1.dpr, m, 1, 100)
                    /\ _sync_dpr_with_capture(s1, pw, ph).dpr = s1.dpr

\* the post-show calibration has run on a resized overlay and kept a scale that
\* is not the measured one, but within 0.01 of it
C28_Witness ==
    /\ ~ScDarwin(sc) /\ ~sync_pending /\ background_pixmap = Pixmap
    /\ geometry # ScreenGeometry /\ RectWidth(geometry) > 0
    /\ ~FracEq(dpr, Measured(PixmapSize(background_pixmap)[1], PixmapSize(background_pixmap)[2]))
    /\ ~FracDiffAbove(dpr, Measured(PixmapSize(background_pixmap)[1],
                                    PixmapSize(background_pixmap)[2]), 1, 100)

\* C29: in every reachable state in which the session is in Editing, the
\* normalized selection rectangle has width > 5 and height > 5 (window adoption
\* and MovingSelection both preserve this), so that the size guard at confirm
\* never suppresses the export.
C29_EditingRectLarge ==
    (visible /\ edit_mode) =>
        /\ RectWidth(RectNormalized(SelectionRect)) > 5
        /\ RectHeight(RectNormalized(SelectionRect)) > 5

\* the eight tool buttons of the toolbar
ToolButtons == {"move", "pen", "rect", "circle", "arrow", "line", "eraser", "text"}

\* a pointer event on a toolbar control
ToolbarEvents ==
    {OnControl(c) : c \in {"cancel", "confirm", "undo"}} \cup {OnTool(t) : t \in ToolButtons}

\* a pointer event that lands on a toolbar control or in the open parameter panel
OnToolbarOrPanel ==
    ToolbarEvents
    \cup (IF param_panel_open
          THEN {OnControl("panel")} \cup {OnItem(it) : it \in ScItems(sc)} ELSE {})

\* C30: with events delivered only while the overlay is visible, an export
\* happens only as the result of an explicit confirm in Editing (the confirm
\* button, or a double click off the toolbar) and at most once per session; the
\* cancel button, Escape, a plain-click termination and every other event,
\* a double click on the toolbar included, never export.
C30_ExportOnlyOnConfirm ==
    /\ Len(saved) <= 1
    /\ saved # << >> => (~visible /\ edit_mode)
    /\ visible =>
        /\ \A r \in CaptureOutcomes :
            /\ \A ev \in PressEvents \ {OnControl("confirm")} :
                    mousePressEvent(Self, ev, r).saved = saved
            /\ (pressed /\ Pointer # None) => mouseReleaseEvent(Self, Pointer, r).saved = saved
            /\ (edit_mode /\ toolbar_drawn) =>
                    \A ev \in OnToolbarOrPanel :
                        mouseDoubleClickEvent(Self, ev, r).saved = saved
        /\ \A p \in ScPts(sc) \cup ScSel(sc) : mouseMoveEvent(Self, p).saved = saved
        /\ \A key \in {"Escape", "Return", "Backspace", "h"} :
                keyPressEvent(Self, key).saved = saved
        /\ _toggle_cursor(Self).saved = saved

\* C31: in every reachable state, text entry active implies that the current
\* tool is Text: no sequence of tool-button clicks, parameter clicks, canvas
\* clicks and key presses leaves text entry active with another tool selected.
C31_TextEditingImpliesTextTool ==
    text_editing => current_tool = "text"

\* text entry with typed content, after an earlier entry was committed by a
\* click on a tool button and the Text tool was chosen again
C31_Witness ==
    /\ text_editing /\ current_tool = "text"
    /\ text_editing_content # << >>
    /\ Len(drawing_paths) >= 1
    /\ drawing_paths[Len(drawing_paths)].type = "text"

\* C32: in every reachable state the hovered shape index is either none or a
\* valid index of the current Shape Model; in particular it stays valid after
\* undo pops the last shape and after an eraser release removes shapes.
C32_HoveredIndexValid ==
    hovered_shape_index # NoIndex => hovered_shape_index \in 1..Len(drawing_paths)

\* shape b is shape a with nothing but coordinates changed
SameShapeMoved(a, b) ==
    /\ b.type = a.type /\ b.color = a.color /\ b.size = a.size
    /\ Len(b.data) = Len(a.data)
    /\ a.type = "text" => b.data[2] = a.data[2]

\* C33: whenever DraggingShape is active the dragged index is a valid index of
\* the Shape Model, and the length and order of the Shape Model do not change
\* between the pointer-down that starts the drag and the pointer-up that ends
\* it; the pointer-up clears both the dragged and the hovered index.
C33_DragKeepsModel ==
    [][ /\ dragging_shape_index' # NoIndex =>
                dragging_shape_index' \in 1..Len(drawing_paths')
        /\ (dragging_shape_index = NoIndex /\ dragging_shape_index' # NoIndex) =>
                drawing_paths' = drawing_paths
        /\ dragging_shape_index # NoIndex =>
                /\ Len(drawing_paths') = Len(drawing_paths)
                /\ \A j \in 1..Len(drawing_paths) :
                        IF j = dragging_shape_index
                        THEN SameShapeMoved(drawing_paths[j], drawing_paths'[j])
                        ELSE drawing_paths'[j] = drawing_paths[j]
                /\ dragging_shape_index' \in {dragging_shape_index, NoIndex}
                /\ dragging_shape_index' = NoIndex <=> (pressed /\ ~pressed')
        /\ (dragging_shape_index # NoIndex /\ pressed /\ ~pressed') =>
                /\ dragging_shape_index' = NoIndex
                /\ hovered_shape_index' = NoIndex
                /\ drag_start_pos' = None
      ]_vars

\* a hovered shape was pressed, dragged away and released, beside another shape
C33_Witness ==
    /\ ~pressed /\ dragging_shape_index = NoIndex /\ hovered_shape_index = NoIndex
    /\ Len(drawing_paths) = 2
    /\ \E j \in 1..2 : drawing_paths[j] \notin EraseCatalog
    /\ edit_mode /\ visible

\* C34: during MovingSelection each move event shifts both the start and the
\* end point of the selection by the delta between consecutive pointer
\* positions, so that the rectangle's width and height are preserved, and the
\* coordinates of every stored shape are left unchanged.
C34_MoveShiftsSelection ==
    [][ \A p \in ScPts(sc) :
            (is_moving /\ pressed /\ Pointer # None /\ MouseMoveOf(p)) =>
                LET d == <<p[1] - Pointer[1], p[2] - Pointer[2]>>
                IN  /\ Displaced(start_pos, start_pos', d)
                    /\ Displaced(end_pos, end_pos', d)
                    /\ RectWidth(_get_selection_rect(Self)')
                            = RectWidth(_get_selection_rect(Self))
                    /\ RectHeight(_get_selection_rect(Self)')
                            = RectHeight(_get_selection_rect(Self))
                    /\ drawing_paths' = drawing_paths
                    /\ is_moving'
      ]_vars

\* the pointer-up that adopts the hovered window as the selection
AdoptsWindow == ~edit_mode /\ edit_mode' /\ hovered_window_rect # None

\* C35: a session is window-bound at confirm time if and only if its selection
\* was adopted from a detected window and no MovingSelection has started since:
\* the binding is made by the adoption only, the pointer-down that starts
\* MovingSelection clears it (also when no move event follows) and nothing
\* else changes it; after that pointer-down, confirm exports a crop of the
\* full-screen buffer at the current selection rectangle.
C35_WindowBinding ==
    [][ /\ (~is_moving /\ is_moving') =>
                selected_window_id' = NoWindow /\ selected_window_pixmap' = NoPixmap
        /\ (selected_window_id = NoWindow /\ selected_window_id' # NoWindow) =>
                AdoptsWindow /\ selected_window_id' = hovered_window_id
        /\ (selected_window_id # NoWindow /\ selected_window_id' # selected_window_id) =>
                (~is_moving /\ is_moving' /\ selected_window_id' = NoWindow)
        /\ \A r \in CaptureOutcomes :
                (edit_mode /\ selected_window_id = NoWindow /\ ConfirmStepWith(r)) =>
                    /\ Exported
                    /\ LastExport.src = "crop" /\ LastExport.image = background_pixmap
                    /\ LastExport.rect = SpannedRect
                    /\ LastExport.src_rect = _rect_to_screen_pixels(Self, SpannedRect)
      ]_vars

\* Rectangle, Ellipse, Arrow and Line: the shapes made of two endpoints
EndpointTools == {"rect", "circle", "arrow", "line"}

\* C36: with tool Rectangle, Ellipse, Arrow or Line, every Drawing gesture
\* (pointer-down at p, any number of moves, pointer-up) appends exactly one
\* shape to the end of the Shape Model carrying the current color and stroke
\* width; a gesture with no movement commits a shape whose two endpoints both
\* equal p.
C36_EndpointGestureCommits ==
    [][ (is_drawing /\ current_tool \in EndpointTools /\ ReleaseStep) =>
            /\ AppendsShape(drawing_paths, drawing_paths', current_tool,
                            <<PressPos, Pointer>>)
            /\ drawing_paths'[Len(drawing_paths')].color = current_color
            /\ drawing_paths'[Len(drawing_paths')].size = current_width
            /\ Len(gesture) = 1 =>
                    drawing_paths'[Len(drawing_paths')].data = <<PressPos, PressPos>>
      ]_vars

\* C37: a double click in Editing that lands on a toolbar control (each of the
\* eight tool buttons and the undo, cancel and confirm buttons) or inside an
\* open parameter panel does not confirm the capture and does not end the
\* session; a double click anywhere else in Editing confirms.
C37_DoubleClickOnToolbarIgnored ==
    [][ \A r \in CaptureOutcomes :
            /\ (edit_mode /\ toolbar_drawn) =>
                    \A ev \in OnToolbarOrPanel :
                        MouseDoubleClickOf(ev, r) => (visible' /\ saved' = saved)
            /\ \A p \in ScPts(sc) :
                    MouseDoubleClickOf(AtPoint(p), r) =>
                        /\ ~visible' /\ Exported
                        /\ LastExport.rect = SpannedRect /\ LastExport.shapes = drawing_paths
      ]_vars

\* a step of the listener thread
ListenerStep == TapCallback \/ \E key \in HotkeyKeys : OnPress(key) \/ OnRelease(key)

\* C38: at most one capture session is live at any time: a trigger (the global
\* hotkey, from the listener thread, or the tray action) that arrives while an
\* overlay is visible starts no new session and changes nothing in the running
\* session's selection rectangle, tool, sub-mode or Shape Model; the listener
\* thread only emits the trigger signal, and the session is started on the main
\* thread.
C38_OneLiveSession ==
    [][ /\ overlay' # overlay =>
                /\ ~(overlay # 0 /\ visible)
                /\ overlay' = overlay + 1 /\ visible'
                /\ StartTimer \/ TrayAction
        /\ ((StartTimer \/ TrayAction) /\ overlay # 0 /\ visible) =>
                /\ overlay' = overlay
                /\ Self' = Self
        /\ ListenerStep =>
                /\ Self' = Self
                /\ UNCHANGED <<overlay, start_timers, pressed, gesture>>
                /\ hotkey_queue' \in {hotkey_queue, hotkey_queue + 1}
        /\ OnHotkeyTriggered =>
                /\ Self' = Self
                /\ overlay' = overlay
      ]_vars

\* the second session of the run is live, in Editing with a selection, while a
\* hotkey trigger is due for the main thread and another is queued
C38_Witness ==
    /\ overlay = 2 /\ visible /\ edit_mode
    /\ start_pos = <<15, 7>> /\ end_pos = <<110, 95>>
    /\ start_timers = 1 /\ hotkey_queue = 1

====
